---- MODULE Spec2Model ----
(***************************************************************************)
(* LinkScope session engine (src/src/bot/engine.ts), its two callers (the  *)
(* POST /session/start and /session/stop routes, the cron trigger of the   *)
(* scheduler), the shared browser page (auth module) and the record store  *)
(* (sqlite.ts + schema.sql).                                               *)
(*                                                                         *)
(* Node runs one JavaScript thread: an async function runs without         *)
(* interruption from one `await` to the next.  Every action below is one   *)
(* such run-to-completion segment of a handler or of the session loop;     *)
(* a position (pc) names the await the function is suspended in.  The      *)
(* variable cpu names a loop that has not reached its next await yet (the  *)
(* `continue` of a skipped candidate goes straight back to the loop test). *)
(***************************************************************************)
EXTENDS Integers, Sequences, FiniteSets, TLC

(* ------------------------------ bounds -------------------------------- *)
\* start requests (route calls and trigger fires) over the whole behaviour
MaxRequests == 2
\* the same, when the config table enables connect or follow
MaxActingRequests == 1
\* clock advances over the whole behaviour
MaxTicks == 1
\* accumulated length of a run's candidate list
MaxUrls == 3

(* ------------------------- program constants -------------------------- *)
DefaultThreshold == 75
DefaultMaxProfiles == 100
DefaultMaxDuration == 60
MsPerMinute == 60000
\* one clock advance of the model: one minute of wall-clock time
TickMs == MsPerMinute

(* ------------------------------ domains ------------------------------- *)
NULL == 0
\* A URL is its path below https://www.linkedin.com, split at "/".
FeedUrl == <<"feed">>
LoginUrl == <<"login">>
SearchUrl == <<"search", "results", "people">>
BlankUrl == <<>>
ProfileUrl(id) == <<"in", id>>
\* what one results page can yield: no URL twice (searchPeople, "Avoid
\* duplicates"); page 2 is a fresh navigation to the same search URL
SearchResults == {<<ProfileUrl("a")>>, <<ProfileUrl("a"), ProfileUrl("b")>>}
Scores == {40, 80}
\* values a numeric key of the config table can hold; 0 stands for "no row"
\* (configQueries.get returns null) as well as for a stored 0: both are falsy
StoredCaps == {0, 1}
StoredDurations == {1}
Keywords == {"", "kw"}

VARIABLES
    now,            \* Date.now(), in ms since process start
    pageOpen,       \* auth.ts `page` is not null
    loggedIn,       \* the browser holds a valid LinkedIn session
    pageUrl,        \* page.url() of the one shared page
    configStore,    \* table config
    dbSessions,     \* table sessions, row i has id i
    dbProfiles,     \* table profiles, in insertion order
    activeSession,  \* engine.ts activeSession: NULL or the id of the object
    objs,           \* the session objects ever built, by sessionId
    loops,          \* the runSessionLoop activations, by sessionId
    reqs,           \* the start requests in flight (route and trigger calls)
    reply,          \* the answer the last finished start request got
    ui,             \* routes.ts currentSession
    log,            \* the last console line of a session loop that ended
    quota,          \* start requests the environment may still make
    cpu,            \* NULL, or the loop that holds the JavaScript thread
    dbSchedules,    \* table schedules, row i has id i
    dbUserProfile,  \* table user_profile, in rowid order
    cronJobs,       \* the node-cron tasks ever created, in creation order
    activeJobs,     \* jobs.ts activeJobs: Map from time string to task
    sessionBehavior,\* delays.ts sessionBehavior: the micro-break counters
    call            \* the last call of a pure helper: its arguments and result

vars == <<now, pageOpen, loggedIn, pageUrl, configStore,
          dbSessions, dbProfiles, activeSession, objs, loops, reqs, reply, ui,
          log, quota, cpu, dbSchedules, dbUserProfile, cronJobs, activeJobs,
          sessionBehavior, call>>

\* the scheduler's own state, and the rest
schedVars == <<dbSchedules, cronJobs, activeJobs>>
engineVars == <<now, pageOpen, loggedIn, pageUrl, configStore, dbSessions,
                dbProfiles, activeSession, objs, loops, reqs, reply, ui, log,
                quota, cpu, dbUserProfile, sessionBehavior>>

(* ------------------------- pure helpers ------------------------------- *)
\* JavaScript `v || d` on a number
OrDefault(v, d) == IF v = 0 THEN d ELSE v

\* engine.ts:165  profileUrl.split('/in/')[1]?.split('/')[0]  ("" for undefined)
ProfileIdOf(url) ==
    IF Len(url) >= 2 /\ url[1] = "in" THEN url[2] ELSE ""

\* scraper.ts:49  url.match(/linkedin\.com\/in\/([^\/\?]+)/)
extractProfileId(url) ==
    IF Len(url) >= 2 /\ url[1] = "in" THEN url[2] ELSE ""

\* sqlite.ts:119  profileQueries.exists
profileQueries_exists(prof, linkedinId) ==
    \E i \in 1..Len(prof) : prof[i].linkedin_id = linkedinId

\* sqlite.ts:50  sessionQueries.update: UPDATE sessions SET <fields> WHERE id = ?
sessionQueries_update(ses, id, data) ==
    IF id \in 1..Len(ses)
    THEN [ses EXCEPT ![id] =
            [k \in DOMAIN @ |-> IF k \in DOMAIN data THEN data[k] ELSE @[k]]]
    ELSE ses

\* sqlite.ts:43 + schema.sql sessions: INSERT, the column defaults, AUTOINCREMENT id
sessionQueries_create(ses, keywords, config) ==
    Append(ses, [search_keywords |-> keywords, config |-> config,
                 status |-> "running", ended_at |-> FALSE,
                 profiles_viewed |-> 0, connections_sent |-> 0,
                 follows_sent |-> 0])

\* routes.ts updateSessionState: Object.assign(currentSession, update)
updateSessionState(u, update) ==
    [k \in DOMAIN u |-> IF k \in DOMAIN update THEN update[k] ELSE u[k]]

(* ------------------------------ strings ------------------------------- *)
\* A JavaScript string whose characters matter is a sequence of one-character
\* strings: <<"9", ":", "0", "0">> is '9:00'.

\* the UTF-16 code unit of a character, for the characters the model uses
Code(c) ==
    CASE c = " " -> 32 [] c = "," -> 44
      [] c = "0" -> 48 [] c = "1" -> 49 [] c = "2" -> 50 [] c = "3" -> 51
      [] c = "4" -> 52 [] c = "5" -> 53 [] c = "6" -> 54 [] c = "7" -> 55
      [] c = "8" -> 56 [] c = "9" -> 57 [] c = ":" -> 58
      [] c = "A" -> 65 [] c = "M" -> 77 [] c = "P" -> 80 [] c = "W" -> 87
      [] c = "a" -> 97 [] c = "d" -> 100 [] c = "e" -> 101 [] c = "i" -> 105
      [] c = "m" -> 109 [] c = "n" -> 110 [] c = "o" -> 111 [] c = "p" -> 112
      [] c = "s" -> 115 [] c = "t" -> 116 [] c = "w" -> 119 [] c = "x" -> 120
      [] OTHER -> 63

\* String.prototype.toLowerCase, character by character
LowerOf(c) ==
    CASE c = "A" -> "a" [] c = "M" -> "m" [] c = "P" -> "p" [] c = "W" -> "w"
      [] OTHER -> c

toLowerCase(str) == [i \in 1..Len(str) |-> LowerOf(str[i])]

\* a < b in JavaScript's string order (code units, a proper prefix first)
RECURSIVE StringLess(_, _)
StringLess(a, b) ==
    IF b = <<>> THEN FALSE
    ELSE IF a = <<>> THEN TRUE
    ELSE IF Code(a[1]) # Code(b[1]) THEN Code(a[1]) < Code(b[1])
    ELSE StringLess(Tail(a), Tail(b))

\* Array.prototype.sort() without a comparator: ascending string order, stable
RECURSIVE Insert(_, _)
Insert(sorted, str) ==
    IF sorted = <<>> THEN <<str>>
    ELSE IF StringLess(str, sorted[1]) THEN <<str>> \o sorted
    ELSE <<sorted[1]>> \o Insert(Tail(sorted), str)

RECURSIVE sort(_)
sort(list) ==
    IF list = <<>> THEN <<>>
    ELSE Insert(sort(SubSeq(list, 1, Len(list) - 1)), list[Len(list)])

\* String.prototype.split(separator) for a one-character separator
RECURSIVE split(_, _)
split(str, sep) ==
    IF \A i \in 1..Len(str) : str[i] # sep THEN <<str>>
    ELSE LET k == CHOOSE i \in 1..Len(str) :
                      str[i] = sep /\ \A j \in 1..(i - 1) : str[j] # sep
         IN <<SubSeq(str, 1, k - 1)>>
              \o split(SubSeq(str, k + 1, Len(str)), sep)

\* Number(x) is NaN
NaN == -1

Digit(c) == Code(c) - Code("0")

\* Number(str) for a string of decimal digits; '' is 0, anything else NaN
RECURSIVE Number(_)
Number(str) ==
    IF str = <<>> THEN 0
    ELSE IF \E i \in 1..Len(str) : Digit(str[i]) \notin 0..9 THEN NaN
    ELSE 10 * Number(SubSeq(str, 1, Len(str) - 1)) + Digit(str[Len(str)])

\* String.prototype.trim, for the one whitespace character of the model
RECURSIVE trim(_)
trim(str) ==
    IF str = <<>> THEN str
    ELSE IF str[1] = " " THEN trim(Tail(str))
    ELSE IF str[Len(str)] = " " THEN trim(SubSeq(str, 1, Len(str) - 1))
    ELSE str

\* String.prototype.includes
includes(str, part) ==
    \E i \in 1..(Len(str) - Len(part) + 1) :
        SubSeq(str, i, i + Len(part) - 1) = part

(* ------------------------------ messages ------------------------------ *)
\* the text a column of the database holds: the characters as one string
RECURSIVE Text(_)
Text(str) == IF str = <<>> THEN "" ELSE str[1] \o Text(Tail(str))

\* what scrapeProfile read on the page of a profile: `name` is trimmed and
\* never empty (scraper.ts:68-94, 'Unknown' when neither the h1 nor the title
\* gives one)
ScrapedProfile(linkedin_id) ==
    CASE linkedin_id = "a" ->
           [name |-> <<"a", "n", "n", " ", "l", "e", "e">>,
            headline |-> <<"p", "m", " ", "o", "p", "s">>, company |-> <<>>]
      [] linkedin_id = "b" ->
           [name |-> <<"b", "o", "b">>, headline |-> <<>>,
            company |-> <<"a", "c", "m", "e">>]
      [] OTHER ->
           [name |-> <<"Unknown">>, headline |-> <<>>, company |-> <<>>]

\* messages.ts:25  maxLength: number = 300
maxLength == 300

\* What the chat completion gave: the call (or getOpenAI before it) threw, or
\* `response.choices[0]?.message?.content`, '' when there is none.
NoResponse == [throws |-> FALSE, content |-> <<>>]
Responses ==
    {[throws |-> TRUE, content |-> <<>>],
     NoResponse,
     [throws |-> FALSE, content |-> <<" ">>],
     [throws |-> FALSE, content |-> <<"\"", "\"">>],
     [throws |-> FALSE, content |-> <<"\"", "h", "i", "\"", " ">>]}

\* messages.ts:88-96  generateFallbackMessage, k = Math.floor(Math.random() * 3)
generateFallbackMessage(profile, k) ==
    LET firstName == split(profile.name, " ")[1]
        templates ==
          << <<"Hi ">> \o firstName \o <<"! Your background">>
               \o (IF profile.company # <<>>
                   THEN <<" at ">> \o profile.company ELSE <<>>)
               \o <<" caught my attention.">>,
             <<"Hi ">> \o firstName \o <<", I noticed we might have shared interests.">>,
             <<"Hi ">> \o firstName \o <<"! Really impressed by your experience">>
               \o (IF profile.headline # <<>>
                   THEN <<" in ">> \o split(profile.headline, " ")[1]
                   ELSE <<>>)
               \o <<". Would be great to connect.">> >>
    IN templates[k + 1]

\* messages.ts:71  message.replace(/^["']|["']$/g, ''): one quote at the
\* start and one at the end, never the same character twice
stripQuotes(message) ==
    LET lead == message # <<>> /\ message[1] \in {"\"", "'"}
        from == IF lead THEN 2 ELSE 1
        trail == Len(message) >= from /\ message[Len(message)] \in {"\"", "'"}
    IN SubSeq(message, from,
              IF trail THEN Len(message) - 1 ELSE Len(message))

\* Variant of generateConnectionMessage for the sensitivity of C36: the
\* text of the completion is returned trimmed and unquoted, empty or not.
generateConnectionMessage_noFallback(targetProfile, response, k) ==
    IF response.throws THEN generateFallbackMessage(targetProfile, k)
    ELSE stripQuotes(trim(response.content))

\* messages.ts:22-83  generateConnectionMessage; the sender's profile goes
\* into the prompt only
generateConnectionMessage(targetProfile, response, k) ==
    IF response.throws THEN generateFallbackMessage(targetProfile, k)
    ELSE LET stripped == stripQuotes(trim(response.content))
             message == IF Len(stripped) > maxLength
                        THEN SubSeq(stripped, 1, maxLength - 3)
                               \o <<".", ".", ".">>
                        ELSE stripped
         IN IF message # <<>> THEN message
            ELSE generateFallbackMessage(targetProfile, k)

(* --------------------- the machine state as a value -------------------- *)
\* The handlers are sequential code: each is written as a function from the
\* state before to the state after, and an action assigns the result.
Cur == [as |-> activeSession, objs |-> objs, ses |-> dbSessions,
        prof |-> dbProfiles, ui |-> ui, page |-> pageUrl, loops |-> loops,
        log |-> log, cpu |-> cpu]

\* A session object that neither activeSession nor a live loop refers to is
\* garbage: it is kept in a canonical form.
Collected(o) ==
    [o EXCEPT !.running = FALSE, !.profileUrls = <<>>,
              !.currentPageIndex = 0,
              !.stats = [profilesViewed |-> 0, connectionsSent |-> 0,
                         followsSent |-> 0, startTime |-> 0,
                         endTime |-> FALSE, status |-> "collected"]]

Collect(m) ==
    [sid \in 1..Len(m.objs) |->
        IF m.as # sid /\ m.loops[sid].pc = "done"
        THEN Collected(m.objs[sid]) ELSE m.objs[sid]]

Set(m) ==
    /\ activeSession' = m.as
    /\ objs' = Collect(m)
    /\ dbSessions' = m.ses
    /\ dbProfiles' = m.prof
    /\ ui' = m.ui
    /\ log' = m.log
    /\ pageUrl' = m.page
    /\ loops' = m.loops
    /\ cpu' = m.cpu

NoFrame == [pc |-> "done", profileUrl |-> BlankUrl,
            linkedin_id |-> "", score |-> 0, action |-> "", message |-> <<>>,
            messageSent |-> <<>>, response |-> NoResponse]

\* the locals of one loop iteration, before the candidate is popped
IterFrame(pc) == [NoFrame EXCEPT !.pc = pc]

(* ------------------------------ engine -------------------------------- *)
\* Variant of stopSession for the sensitivity of C24: the terminal record is
\* written with its counters reset.
stopSession_countersLost(m, status) ==
    IF m.as = NULL THEN m
    ELSE LET a == m.as
             o == [m.objs EXCEPT ![a].running = FALSE,
                                 ![a].stats.status = status,
                                 ![a].stats.endTime = TRUE]
         IN [m EXCEPT
               !.objs = o,
               !.ses = sessionQueries_update(m.ses, o[a].sessionId,
                         [status |-> status, ended_at |-> TRUE,
                          profiles_viewed |-> 0,
                          connections_sent |-> 0,
                          follows_sent |-> 0]),
               !.ui = updateSessionState(m.ui, [running |-> FALSE]),
               !.as = NULL]

\* engine.ts:258  stopSession(status)
stopSession(m, status) ==
    IF m.as = NULL THEN m
    ELSE LET a == m.as
             o == [m.objs EXCEPT ![a].running = FALSE,
                                 ![a].stats.status = status,
                                 ![a].stats.endTime = TRUE]
         IN [m EXCEPT
               !.objs = o,
               !.ses = sessionQueries_update(m.ses, o[a].sessionId,
                         [status |-> status, ended_at |-> TRUE,
                          profiles_viewed |-> o[a].stats.profilesViewed,
                          connections_sent |-> o[a].stats.connectionsSent,
                          follows_sent |-> o[a].stats.followsSent]),
               !.ui = updateSessionState(m.ui, [running |-> FALSE]),
               !.as = NULL]

\* engine.ts:248-252 (catch: log the error, stopSession('error'), rethrow) and
\* 107-110 (the .catch of startSession: stopSession('error') again)
LoopThrows(m, sid, error) ==
    [stopSession(stopSession(m, "error"), "error") EXCEPT
        !.loops[sid] = NoFrame,
        !.log = error,
        !.cpu = NULL]

\* engine.ts:134-157, 246  the loop was left by a break or by its test, with
\* the line logged on the way out: stopSession('completed')
LoopLeft(m, sid, line) ==
    [stopSession(m, "completed") EXCEPT
        !.loops[sid] = NoFrame,
        !.log = line,
        !.cpu = NULL]

\* Variant of PopCandidate for the sensitivity of C5: a skipped candidate is
\* counted as a visit.
PopCandidate_skipCounts(m, sid) ==
    LET a == m.as
        profileUrl == m.objs[a].profileUrls[m.objs[a].currentPageIndex + 1]
        m1 == [m EXCEPT !.objs[a].currentPageIndex = @ + 1]
        profileId == ProfileIdOf(profileUrl)
    IN IF profileId # "" /\ profileQueries_exists(m.prof, profileId)
       THEN [m1 EXCEPT !.loops[sid] = IterFrame("top"), !.cpu = sid,
                       !.objs[sid].stats.profilesViewed = @ + 1]
       ELSE [m1 EXCEPT !.loops[sid] =
                          [IterFrame("view") EXCEPT !.profileUrl = profileUrl],
                       !.page = profileUrl,
                       !.cpu = NULL]

\* engine.ts:161-172  pop the next candidate; skip it if already recorded,
\* else call viewProfile, whose first act is page.goto(profileUrl)
PopCandidate(m, sid) ==
    LET a == m.as
        profileUrl == m.objs[a].profileUrls[m.objs[a].currentPageIndex + 1]
        m1 == [m EXCEPT !.objs[a].currentPageIndex = @ + 1]
        profileId == ProfileIdOf(profileUrl)
    IN IF profileId # "" /\ profileQueries_exists(m.prof, profileId)
       THEN [m1 EXCEPT !.loops[sid] = IterFrame("top"), !.cpu = sid]
       ELSE [m1 EXCEPT !.loops[sid] =
                          [IterFrame("view") EXCEPT !.profileUrl = profileUrl],
                       !.page = profileUrl,
                       !.cpu = NULL]

\* Variant of LoopTest for the sensitivity of C3: the cap is compared with >.
LoopTest_capOffByOne(m, sid) ==
    IF m.as = NULL
    THEN LoopThrows(m, sid, "TypeError")
    ELSE LET a == m.as
             config == m.objs[sid].config
             stats == m.objs[sid].stats
             maxDurationMs == config.maxDuration * MsPerMinute
         IN IF ~m.objs[a].running THEN LoopLeft(m, sid, "")
            ELSE IF stats.profilesViewed > config.maxProfiles
                 THEN LoopLeft(m, sid, "Profile limit reached")
            ELSE IF now - stats.startTime >= maxDurationMs
                 THEN LoopLeft(m, sid, "Time limit reached")
            ELSE IF m.objs[a].currentPageIndex >= Len(m.objs[a].profileUrls)
                 THEN [m EXCEPT !.loops[sid] = IterFrame("nextpage"),
                                !.cpu = NULL]
            ELSE PopCandidate(m, sid)

\* Variant of LoopTest for the sensitivity of C6: the elapsed time is compared
\* with >.
LoopTest_timeStrict(m, sid) ==
    IF m.as = NULL
    THEN LoopThrows(m, sid, "TypeError")
    ELSE LET a == m.as
             config == m.objs[sid].config
             stats == m.objs[sid].stats
             maxDurationMs == config.maxDuration * MsPerMinute
         IN IF ~m.objs[a].running THEN LoopLeft(m, sid, "")
            ELSE IF stats.profilesViewed >= config.maxProfiles
                 THEN LoopLeft(m, sid, "Profile limit reached")
            ELSE IF now - stats.startTime > maxDurationMs
                 THEN LoopLeft(m, sid, "Time limit reached")
            ELSE IF m.objs[a].currentPageIndex >= Len(m.objs[a].profileUrls)
                 THEN [m EXCEPT !.loops[sid] = IterFrame("nextpage"),
                                !.cpu = NULL]
            ELSE PopCandidate(m, sid)

\* engine.ts:132-159  the loop test and the checks at the top of an iteration
LoopTest(m, sid) ==
    IF m.as = NULL                              \* activeSession.running of null
    THEN LoopThrows(m, sid, "TypeError")
    ELSE LET a == m.as
             config == m.objs[sid].config
             stats == m.objs[sid].stats
             maxDurationMs == config.maxDuration * MsPerMinute
         IN IF ~m.objs[a].running THEN LoopLeft(m, sid, "")
            ELSE IF stats.profilesViewed >= config.maxProfiles
                 THEN LoopLeft(m, sid, "Profile limit reached")
            ELSE IF now - stats.startTime >= maxDurationMs
                 THEN LoopLeft(m, sid, "Time limit reached")
            ELSE IF m.objs[a].currentPageIndex >= Len(m.objs[a].profileUrls)
                 THEN [m EXCEPT !.loops[sid] = IterFrame("nextpage"),
                                !.cpu = NULL]
            ELSE PopCandidate(m, sid)

\* SQL NULL in a column
SqlNull == "NULL"

\* sqlite.ts:88-102 + schema.sql profiles: the row that the INSERT writes.
\* Each optional value goes through `|| null`; the column list has no
\* category, so that column keeps its default, NULL.
ProfileRow(profile) ==
    [linkedin_id |-> profile.linkedin_id,
     score |-> IF profile.score = 0 THEN SqlNull ELSE profile.score,
     category |-> SqlNull,
     action_taken |-> IF profile.action_taken = "" THEN SqlNull
                      ELSE profile.action_taken,
     message_sent |-> IF profile.message_sent = <<>> THEN SqlNull
                      ELSE Text(profile.message_sent),
     session_id |-> profile.session_id]

\* Variant of profileQueries_create for the sensitivity of C4: a profiles
\* table without the UNIQUE constraint.
profileQueries_create_noUnique(prof, profile) ==
    [threw |-> FALSE, prof |-> Append(prof, ProfileRow(profile))]

\* sqlite.ts:73 + schema.sql `linkedin_id TEXT UNIQUE`: the INSERT of an
\* identifier already in the table throws (SQLITE_CONSTRAINT) and adds no row
profileQueries_create(prof, profile) ==
    IF profileQueries_exists(prof, profile.linkedin_id)
    THEN [threw |-> TRUE, prof |-> prof]
    ELSE [threw |-> FALSE, prof |-> Append(prof, ProfileRow(profile))]

\* engine.ts:207-242  persist the iteration, then await humanDelay
SaveProfile(m, sid) ==
    LET f == m.loops[sid]
        stats == m.objs[sid].stats
        ins == profileQueries_create(m.prof,
                 [linkedin_id |-> f.linkedin_id, score |-> f.score,
                  action_taken |-> f.action, message_sent |-> f.messageSent,
                  session_id |-> m.objs[sid].sessionId])
    IN IF ins.threw THEN LoopThrows(m, sid, "SQLITE_CONSTRAINT")
       ELSE [m EXCEPT
               !.prof = ins.prof,
               !.ui = updateSessionState(m.ui,
                        [profilesViewed |-> stats.profilesViewed,
                         connectionsSent |-> stats.connectionsSent,
                         followsSent |-> stats.followsSent]),
               !.ses = sessionQueries_update(m.ses, m.objs[sid].sessionId,
                         [profiles_viewed |-> stats.profilesViewed,
                          connections_sent |-> stats.connectionsSent,
                          follows_sent |-> stats.followsSent]),
               !.loops[sid] = IterFrame("delay")]

\* Variant of AfterConnect for the sensitivity of C30: the follow is attempted
\* only after a connection request that succeeded.
AfterConnect_onlyIfConnected(m, sid) ==
    IF m.objs[sid].config.enableFollow /\ m.loops[sid].action = "connected"
    THEN [m EXCEPT !.loops[sid].pc = "follow"]
    ELSE SaveProfile(m, sid)

\* engine.ts:197-205  follow if enabled, else go on to persist
AfterConnect(m, sid) ==
    IF m.objs[sid].config.enableFollow
    THEN [m EXCEPT !.loops[sid].pc = "follow"]
    ELSE SaveProfile(m, sid)

\* Variant of AfterScore for the sensitivity of C15: the score is not
\* compared with the threshold.
AfterScore_noThreshold(m, sid) ==
    LET config == m.objs[sid].config
        m1 == [m EXCEPT !.loops[sid].action = "viewed"]
    IN IF config.enableConnect
       THEN [m1 EXCEPT !.loops[sid].pc = "genmsg"]
       ELSE AfterConnect(m1, sid)

\* Variant of AfterScore for the sensitivity of C29: a profile scored below
\* the threshold is still followed.
AfterScore_followAnyway(m, sid) ==
    LET config == m.objs[sid].config
        m1 == [m EXCEPT !.loops[sid].action = "viewed"]
    IN IF m.loops[sid].score >= config.threshold /\ config.enableConnect
       THEN [m1 EXCEPT !.loops[sid].pc = "genmsg"]
       ELSE AfterConnect(m1, sid)

\* engine.ts:178-196  the action policy once the score is known
AfterScore(m, sid) ==
    LET config == m.objs[sid].config
        m1 == [m EXCEPT !.loops[sid].action = "viewed"]
    IN IF m.loops[sid].score >= config.threshold
       THEN IF config.enableConnect
            THEN [m1 EXCEPT !.loops[sid].pc = "genmsg"]
            ELSE AfterConnect(m1, sid)
       ELSE SaveProfile(m1, sid)

(* ---------------------- the loop, await by await ---------------------- *)
Live(sid) == sid \in 1..Len(loops) /\ loops[sid].pc # "done"

\* engine.ts:129  the first searchPeople returned
SearchReturns(sid) ==
    /\ cpu = NULL
    /\ Live(sid) /\ loops[sid].pc = "search0"
    /\ \E urls \in SearchResults :
          Set(LoopTest([Cur EXCEPT !.objs[sid].profileUrls = urls,
                                   !.loops[sid].pc = "top"], sid))
    /\ UNCHANGED <<schedVars, dbUserProfile, sessionBehavior, call, now, pageOpen, loggedIn, configStore, reqs, reply, quota>>

\* engine.ts:132  back at the loop test straight after a skip (`continue`)
LoopContinues(sid) ==
    /\ cpu = sid
    /\ Live(sid) /\ loops[sid].pc = "top"
    /\ Set(LoopTest(Cur, sid))
    /\ UNCHANGED <<schedVars, dbUserProfile, sessionBehavior, call, now, pageOpen, loggedIn, configStore, reqs, reply, quota>>

\* the address of the results page that a click on Next leads to
NextResultsUrl == SearchUrl \o <<"page=2">>

\* engine.ts:523  nextButton.click(): the browser shows the next results page
nextSearchPage_click(m) == [m EXCEPT !.page = NextResultsUrl]

\* engine.ts:435-437  searchPeople builds the search URL from the keywords
\* alone and navigates to it before it reads any result
searchPeople_goto(m, sid) ==
    [m EXCEPT !.page = SearchUrl, !.loops[sid].pc = "search"]

\* engine.ts:147-153  nextSearchPage returned: a Next button exists only on a
\* results page; if it was clicked, searchPeople is called next
NextPageReturns(sid) ==
    /\ cpu = NULL
    /\ Live(sid) /\ loops[sid].pc = "nextpage"
    /\ \E hasMore \in BOOLEAN :
          /\ hasMore => pageUrl = SearchUrl
          /\ (hasMore /\ activeSession # NULL) =>
                Len(objs[activeSession].profileUrls) < MaxUrls
          /\ Set(IF hasMore
                 THEN searchPeople_goto(nextSearchPage_click(Cur), sid)
                 ELSE LoopLeft(Cur, sid, "No more profiles to visit"))
    /\ UNCHANGED <<schedVars, dbUserProfile, sessionBehavior, call, now, pageOpen, loggedIn, configStore, reqs, reply, quota>>

\* engine.ts:153-159  the second searchPeople returned
MoreUrlsReturn(sid) ==
    /\ cpu = NULL
    /\ Live(sid) /\ loops[sid].pc = "search"
    /\ \E moreUrls \in SearchResults :
          /\ activeSession # NULL =>
                Len(objs[activeSession].profileUrls) + Len(moreUrls) <= MaxUrls
          /\ Set(IF activeSession = NULL
                 THEN LoopThrows(Cur, sid, "TypeError")
                 ELSE LET a == activeSession
                          m1 == [Cur EXCEPT !.objs[a].profileUrls = @ \o moreUrls]
                      IN IF m1.objs[a].currentPageIndex
                              >= Len(m1.objs[a].profileUrls)
                         THEN LoopLeft(m1, sid, "")
                         ELSE PopCandidate(m1, sid))
    /\ UNCHANGED <<schedVars, dbUserProfile, sessionBehavior, call, now, pageOpen, loggedIn, configStore, reqs, reply, quota>>

\* Variant of ViewReturns for the sensitivity of C39: the visit is not counted.
ViewReturns_notCounted(sid) ==
    /\ cpu = NULL
    /\ Live(sid) /\ loops[sid].pc = "view"
    /\ \E ok \in BOOLEAN :
          Set(IF ok
              THEN [Cur EXCEPT
                      !.loops[sid].linkedin_id = extractProfileId(pageUrl),
                      !.loops[sid].pc = "score"]
              ELSE LoopThrows(Cur, sid, "goto"))
    /\ UNCHANGED <<schedVars, dbUserProfile, sessionBehavior, call, now, pageOpen, loggedIn, configStore, reqs, reply, quota>>

\* engine.ts:172-176 + actions.ts viewProfile: the navigation failed (goto
\* throws), or scrapeProfile read page.url() and the visit is counted
ViewReturns(sid) ==
    /\ cpu = NULL
    /\ Live(sid) /\ loops[sid].pc = "view"
    /\ \E ok \in BOOLEAN :
          Set(IF ok
              THEN [Cur EXCEPT
                      !.loops[sid].linkedin_id = extractProfileId(pageUrl),
                      !.loops[sid].pc = "score",
                      !.objs[sid].stats.profilesViewed = @ + 1]
              ELSE LoopThrows(Cur, sid, "goto"))
    /\ UNCHANGED <<schedVars, dbUserProfile, sessionBehavior, call, now, pageOpen, loggedIn, configStore, reqs, reply, quota>>

\* engine.ts:176  scoreProfile returned (the AI's score or the fallback's)
ScoreReturns(sid) ==
    /\ cpu = NULL
    /\ Live(sid) /\ loops[sid].pc = "score"
    /\ \E score \in Scores :
          Set(AfterScore([Cur EXCEPT !.loops[sid].score = score], sid))
    /\ UNCHANGED <<schedVars, dbUserProfile, sessionBehavior, call, now, pageOpen, loggedIn, configStore, reqs, reply, quota>>

\* engine.ts:187, 49-54  the completion arrived or failed and
\* generateMessage returned; `response` is kept beside the message
MessageReturns(sid) ==
    /\ cpu = NULL
    /\ Live(sid) /\ loops[sid].pc = "genmsg"
    /\ \E response \in Responses, k \in 0..2 :
          Set([Cur EXCEPT
                 !.loops[sid].response = response,
                 !.loops[sid].message =
                     generateConnectionMessage(
                        ScrapedProfile(loops[sid].linkedin_id), response, k),
                 !.loops[sid].pc = "connect"])
    /\ UNCHANGED <<schedVars, dbUserProfile, sessionBehavior, call, now, pageOpen, loggedIn, configStore, reqs, reply, quota>>

\* engine.ts:188-195  sendConnectionRequest returned
ConnectReturns(sid) ==
    /\ cpu = NULL
    /\ Live(sid) /\ loops[sid].pc = "connect"
    /\ \E connected \in BOOLEAN :
          Set(AfterConnect(
                IF connected
                THEN [Cur EXCEPT
                        !.objs[sid].stats.connectionsSent = @ + 1,
                        !.loops[sid].action = "connected",
                        !.loops[sid].messageSent = loops[sid].message]
                ELSE Cur, sid))
    /\ UNCHANGED <<schedVars, dbUserProfile, sessionBehavior, call, now, pageOpen, loggedIn, configStore, reqs, reply, quota>>

\* engine.ts:199-204  followProfile returned
FollowReturns(sid) ==
    /\ cpu = NULL
    /\ Live(sid) /\ loops[sid].pc = "follow"
    /\ \E followed \in BOOLEAN :
          Set(SaveProfile(
                IF followed
                THEN [Cur EXCEPT
                        !.objs[sid].stats.followsSent = @ + 1,
                        !.loops[sid].action =
                            IF @ = "connected" THEN "connected+followed"
                                               ELSE "followed"]
                ELSE Cur, sid))
    /\ UNCHANGED <<schedVars, dbUserProfile, sessionBehavior, call, now, pageOpen, loggedIn, configStore, reqs, reply, quota>>

\* engine.ts:242, 132  humanDelay elapsed: the next loop test
DelayReturns(sid) ==
    /\ cpu = NULL
    /\ Live(sid) /\ loops[sid].pc = "delay"
    /\ Set(LoopTest([Cur EXCEPT !.loops[sid].pc = "top"], sid))
    /\ UNCHANGED <<schedVars, dbUserProfile, sessionBehavior, call, now, pageOpen, loggedIn, configStore, reqs, reply, quota>>

(* ------------------------------- auth --------------------------------- *)
\* auth.ts checkLinkedInLogin, up to its await: open the browser if there is
\* no page, then page.goto(feed); LinkedIn redirects to the login page when
\* the browser holds no valid session
LoginCheckGoto == IF loggedIn THEN FeedUrl ELSE LoginUrl

\* Variant of LoginCheckResult for the sensitivity of C11: every page counts
\* as the feed.
LoginCheckResult_anyPage(url) == TRUE

\* auth.ts checkLinkedInLogin, after the wait: url.includes('/feed')
LoginCheckResult(url) == Len(url) >= 1 /\ url[1] = "feed"

\* auth.ts startLogin (POST /auth/login), the operator logging in by hand:
\* the browser is open and shows the feed
StartLogin ==
    /\ cpu = NULL
    /\ ~pageOpen \/ ~loggedIn
    /\ pageOpen' = TRUE
    /\ loggedIn' = TRUE
    /\ pageUrl' = FeedUrl
    /\ UNCHANGED <<schedVars, dbUserProfile, sessionBehavior, call, now, configStore, dbSessions, dbProfiles, activeSession,
                   objs, loops, reqs, reply, ui, log, quota, cpu>>

(* ------------------------- starting a run ----------------------------- *)
\* a start request that is suspended in an await
Request(kind, pc, keywords, config) ==
    [kind |-> kind, pc |-> pc, keywords |-> keywords, config |-> config]

\* the answer a caller got: the HTTP response of the route, the log line of
\* the trigger
Reply(kind, result) == [kind |-> kind, result |-> result]

Remove(seq, r) == SubSeq(seq, 1, r - 1) \o SubSeq(seq, r + 1, Len(seq))

\* Variant of getSessionStatus_running for the sensitivity of C17: the engine
\* always reports idle.
getSessionStatus_running_never == FALSE

\* engine.ts getSessionStatus().running
getSessionStatus_running ==
    IF activeSession = NULL THEN FALSE ELSE objs[activeSession].running

\* Variant of startSession_enter for the sensitivity of C9: no check of
\* activeSession.running.
startSession_enter_unguarded(config) ==
    IF ~pageOpen
    THEN [error |-> "Browser not initialized", page |-> pageUrl]
    ELSE [error |-> "", page |-> LoginCheckGoto]

\* engine.ts:59-71  startSession up to `await checkLinkedInLogin()`:
\* the error thrown ("" for none) and the URL the page is sent to
startSession_enter(config) ==
    IF activeSession # NULL /\ objs[activeSession].running
    THEN [error |-> "Session already running", page |-> pageUrl]
    ELSE IF ~pageOpen
    THEN [error |-> "Browser not initialized", page |-> pageUrl]
    ELSE [error |-> "", page |-> LoginCheckGoto]

\* engine.ts:76-112  startSession once checkLinkedInLogin returned true:
\* create the row and the session object, start the loop
startSession_resume(m, config) ==
    LET sessionId == Len(m.ses) + 1
    IN [m EXCEPT
          !.ses = sessionQueries_create(m.ses, config.keywords, config),
          !.objs = Append(m.objs,
                     [config |-> config,
                      stats |-> [profilesViewed |-> 0,
                                 connectionsSent |-> 0,
                                 followsSent |-> 0,
                                 startTime |-> now, endTime |-> FALSE,
                                 status |-> "running"],
                      sessionId |-> sessionId,
                      running |-> TRUE,
                      profileUrls |-> <<>>,
                      currentPageIndex |-> 0]),
          !.as = sessionId,
          !.ui = updateSessionState(m.ui,
                   [id |-> sessionId, running |-> TRUE,
                    profilesViewed |-> 0, connectionsSent |-> 0,
                    followsSent |-> 0]),
          \* runSessionLoop runs up to its first await: searchPeople's goto
          !.loops = Append(m.loops, IterFrame("search0")),
          !.page = SearchUrl]

\* routes.ts POST /session/start: 400 without keywords; else save keywords and
\* threshold, build the config from the config table and call startSession
RouteStart ==
    /\ cpu = NULL
    /\ quota > 0
    /\ quota' = quota - 1
    /\ \E keywords \in Keywords :
          IF keywords = ""
          THEN /\ reply' = Reply("route", "Keywords required")
               /\ UNCHANGED <<configStore, pageUrl, reqs>>
          ELSE LET config ==
                     [keywords |-> keywords,
                      threshold |-> DefaultThreshold,
                      maxProfiles |-> OrDefault(configStore.maxProfiles,
                                                DefaultMaxProfiles),
                      maxDuration |-> OrDefault(configStore.maxDuration,
                                                DefaultMaxDuration),
                      enableConnect |-> FALSE,
                      enableFollow |-> FALSE]
                   e == startSession_enter(config)
               IN /\ configStore' = [configStore EXCEPT
                                       !.keywords = keywords,
                                       !.threshold = DefaultThreshold]
                  /\ pageUrl' = e.page
                  /\ IF e.error # ""
                     THEN /\ reply' = Reply("route", e.error)
                          /\ UNCHANGED reqs
                     ELSE /\ reqs' = Append(reqs, Request("route", "login",
                                                          keywords, config))
                          /\ UNCHANGED reply
    /\ UNCHANGED <<schedVars, dbUserProfile, sessionBehavior, call, now, pageOpen, loggedIn, dbSessions, dbProfiles,
                   activeSession, objs, loops, ui, log, cpu>>

\* jobs.ts:65-92  a cron job fires with the keyword query of its rule: skip if
\* a session runs, else check the login
TriggerFires ==
    /\ cpu = NULL
    /\ quota > 0
    /\ quota' = quota - 1
    /\ IF getSessionStatus_running
       THEN /\ reply' = Reply("trigger", "skipped: already running")
            /\ UNCHANGED <<pageOpen, pageUrl, reqs>>
       ELSE /\ \E keywords \in Keywords :
                  reqs' = Append(reqs, Request("trigger", "tlogin",
                                               keywords, <<>>))
            /\ pageOpen' = TRUE
            /\ pageUrl' = LoginCheckGoto
            /\ UNCHANGED reply
    /\ UNCHANGED <<schedVars, dbUserProfile, sessionBehavior, call, now, loggedIn, configStore, dbSessions, dbProfiles,
                   activeSession, objs, loops, ui, log, cpu>>

\* jobs.ts:92-96 + auth.ts:315-323  the trigger's login check read page.url():
\* skip, or await saveCookies
TriggerLoginReturns(r) ==
    /\ cpu = NULL
    /\ r \in 1..Len(reqs) /\ reqs[r].pc = "tlogin"
    /\ IF LoginCheckResult(pageUrl)
       THEN /\ reqs' = [reqs EXCEPT ![r].pc = "tcookies"]
            /\ UNCHANGED reply
       ELSE /\ reqs' = Remove(reqs, r)
            /\ reply' = Reply("trigger", "skipped: not logged in")
    /\ UNCHANGED <<schedVars, dbUserProfile, sessionBehavior, call, now, pageOpen, loggedIn, pageUrl, configStore, dbSessions,
                   dbProfiles, activeSession, objs, loops, ui, log, quota,
                   cpu>>

\* jobs.ts:102-118  the trigger's login check returned true: call startSession
\* with the rule's keywords and the config table's values
TriggerCallsStart(r) ==
    /\ cpu = NULL
    /\ r \in 1..Len(reqs) /\ reqs[r].pc = "tcookies"
    /\ LET config ==
              [keywords |-> reqs[r].keywords,
               threshold |-> OrDefault(configStore.threshold,
                                       DefaultThreshold),
               maxProfiles |-> OrDefault(configStore.maxProfiles,
                                         DefaultMaxProfiles),
               maxDuration |-> OrDefault(configStore.maxDuration,
                                         DefaultMaxDuration),
               enableConnect |-> configStore.enableConnect,
               enableFollow |-> configStore.enableFollow]
           e == startSession_enter(config)
       IN /\ pageUrl' = e.page
          /\ IF e.error # ""
             THEN /\ reqs' = Remove(reqs, r)
                  /\ reply' = Reply("trigger", e.error)
             ELSE /\ reqs' = [reqs EXCEPT ![r].pc = "login",
                                          ![r].config = config]
                  /\ UNCHANGED reply
    /\ UNCHANGED <<schedVars, dbUserProfile, sessionBehavior, call, now, pageOpen, loggedIn, configStore, dbSessions,
                   dbProfiles, activeSession, objs, loops, ui, log, quota,
                   cpu>>

\* engine.ts:71-74 + auth.ts:315-328  startSession's login check read
\* page.url(): 'Not logged into LinkedIn', or await saveCookies
LoginReturns(r) ==
    /\ cpu = NULL
    /\ r \in 1..Len(reqs) /\ reqs[r].pc = "login"
    /\ IF LoginCheckResult(pageUrl)
       THEN /\ reqs' = [reqs EXCEPT ![r].pc = "cookies"]
            /\ UNCHANGED reply
       ELSE /\ reqs' = Remove(reqs, r)
            /\ reply' = Reply(reqs[r].kind, "Not logged into LinkedIn")
    /\ UNCHANGED <<schedVars, dbUserProfile, sessionBehavior, call, now, pageOpen, loggedIn, pageUrl, configStore, dbSessions,
                   dbProfiles, activeSession, objs, loops, ui, log, quota,
                   cpu>>

\* engine.ts:71-112  checkLinkedInLogin returned true: the run is created
StartResumes(r) ==
    /\ cpu = NULL
    /\ r \in 1..Len(reqs) /\ reqs[r].pc = "cookies"
    /\ Set(startSession_resume(Cur, reqs[r].config))
    /\ reqs' = Remove(reqs, r)
    /\ reply' = Reply(reqs[r].kind, "started")
    /\ UNCHANGED <<schedVars, dbUserProfile, sessionBehavior, call, now, pageOpen, loggedIn, configStore, quota>>

\* routes.ts POST /session/stop: stopSession('stopped'), currentSession.running = false
RouteStop ==
    /\ cpu = NULL
    /\ LET m == stopSession(Cur, "stopped")
       IN Set([m EXCEPT !.ui = updateSessionState(m.ui, [running |-> FALSE])])
    /\ UNCHANGED <<schedVars, dbUserProfile, sessionBehavior, call, now, pageOpen, loggedIn, configStore, reqs, reply, quota>>

\* wall-clock time passes
Tick ==
    /\ cpu = NULL
    /\ now < MaxTicks * TickMs
    /\ now' = now + TickMs
    /\ UNCHANGED <<schedVars, dbUserProfile, sessionBehavior, call, pageOpen, loggedIn, pageUrl, configStore,
                   dbSessions, dbProfiles, activeSession, objs, loops, reqs,
                   reply, ui, log, quota, cpu>>

(* ------------------------------ scoring ------------------------------- *)
\* Variant of fallbackScoring for the sensitivity of C14: no cap at 100.
fallbackScoring_noCap(profile, keywords) ==
    LET keywordList == split(toLowerCase(keywords), ",")
        searchText == toLowerCase(profile.headline \o <<" ">> \o profile.about
                                    \o <<" ">> \o profile.company)
        hits == {i \in 1..Len(keywordList) :
                    /\ trim(keywordList[i]) # <<>>
                    /\ includes(searchText, trim(keywordList[i]))}
        score == 50 + 15 * Cardinality(hits)
                    + (IF profile.mutual_connections > 5 THEN 10 ELSE 0)
                    + (IF profile.connection_count > 500 THEN 5 ELSE 0)
    IN [score |-> score,
        reason |-> "heuristic",
        category |-> IF score >= 75 THEN "high"
                     ELSE IF score >= 50 THEN "medium" ELSE "low"]

\* ai/scorer.ts:124-128  the loop over keywordList from entry i on: 15 for
\* each non-empty keyword the text includes
RECURSIVE KeywordScore(_, _, _)
KeywordScore(keywordList, searchText, i) ==
    IF i > Len(keywordList) THEN 0
    ELSE (IF keywordList[i] # <<>> /\ includes(searchText, keywordList[i])
          THEN 15 ELSE 0)
         + KeywordScore(keywordList, searchText, i + 1)

\* Math.min
Min(a, b) == IF a <= b THEN a ELSE b
\* Math.max
Max(a, b) == IF a >= b THEN a ELSE b

\* ai/scorer.ts:114-145  fallbackScoring; the reason text is kept as its kind
fallbackScoring(profile, keywords) ==
    LET parts == split(toLowerCase(keywords), ",")
        keywordList == [i \in 1..Len(parts) |-> trim(parts[i])]
        searchText == toLowerCase(profile.headline \o <<" ">> \o profile.about
                                    \o <<" ">> \o profile.company)
        score == Min(100,
                     50 + KeywordScore(keywordList, searchText, 1)
                        + (IF profile.mutual_connections > 5 THEN 10 ELSE 0)
                        + (IF profile.connection_count > 500 THEN 5 ELSE 0))
    IN [score |-> score,
        reason |-> "heuristic",
        category |-> IF score >= 75 THEN "high"
                     ELSE IF score >= 50 THEN "medium" ELSE "low"]

\* What the scoring call does: getOpenAI throws without a key, the request
\* throws, or it answers with a content; of a content the model keeps whether
\* /\{[\s\S]*\}/ matches it and what JSON.parse makes of the match
NoKey == [kind |-> "no key"]
RequestThrows == [kind |-> "throws"]
Content(braces, json) == [kind |-> "content", braces |-> braces, json |-> json]
SyntaxError == [score |-> NaN, category |-> "SyntaxError"]
Answer(score, category) == [score |-> score, category |-> category]

\* ai/scorer.ts:40-109  scoreProfile, given what the scoring call does
scoreProfile(profile, keywords, ai) ==
    IF ai.kind # "content" THEN fallbackScoring(profile, keywords)
    ELSE IF ai.braces
    THEN IF ai.json = SyntaxError
         THEN fallbackScoring(profile, keywords)
         ELSE [score |-> Min(100, Max(0, ai.json.score)),
               reason |-> "AI evaluated",
               category |->
                  IF ai.json.category # "" THEN ai.json.category
                  ELSE IF ai.json.score >= 75 THEN "high"
                  ELSE IF ai.json.score >= 50 THEN "medium" ELSE "low"]
    ELSE [score |-> 50, reason |-> "Could not parse AI response",
          category |-> "medium"]

\* the inputs of the scoring checks
QueryPmAiOps == <<"P", "M", ",", " ", "a", "i", ",", "o", "p", "s">>
QueryPm == <<"p", "m">>
QueryPmPm == <<"p", "m", ",", ",", "p", "m">>
QueryPmAi == <<"p", "m", " ", "a", "i">>
Queries == {QueryPmAiOps, QueryPm, QueryPmPm, QueryPmAi, <<>>}
Profiles == [headline : {<<"P", "M">>, <<"a", "i", " ", "o", "p", "s">>, <<>>},
             about : {<<>>, <<"a", "i">>},
             company : {<<"o", "p", "s">>, <<"x">>},
             mutual_connections : {0, 5, 6},
             connection_count : {500, 501}]
AIOutcomes == {NoKey, RequestThrows, Content(FALSE, SyntaxError),
               Content(TRUE, SyntaxError), Content(TRUE, Answer(80, "high")),
               Content(TRUE, Answer(120, ""))}

\* engine.ts:43-47, 176  the loop scores the profile it was given
ScoreProfileCalled ==
    /\ call.fn = "" /\ Len(call.args) = 3
    /\ call' = [call EXCEPT
                  !.fn = "scoreProfile",
                  !.result = scoreProfile(call.args[1], call.args[2],
                                          call.args[3])]
    /\ UNCHANGED <<engineVars, schedVars>>

(* ----------------------------- discovery ------------------------------ *)
\* String.prototype.split(/\s+/): the pieces between runs of whitespace, with
\* an empty piece before a leading run and after a trailing one
RECURSIVE splitWhitespace(_)
splitWhitespace(str) ==
    IF \A i \in 1..Len(str) : str[i] # " " THEN <<str>>
    ELSE LET k == CHOOSE i \in 1..Len(str) :
                      str[i] = " " /\ \A j \in 1..(i - 1) : str[j] # " "
             e == CHOOSE i \in k..Len(str) :
                      /\ \A j \in k..i : str[j] = " "
                      /\ i = Len(str) \/ str[i + 1] # " "
         IN <<SubSeq(str, 1, k - 1)>>
              \o splitWhitespace(SubSeq(str, e + 1, Len(str)))

\* a result card of the search page: the href of its profile link (a path as
\* the sequence of its parts, <<>> when the card has no link), the name and
\* the headline it shows
Card(href, name, headline) ==
    [href |-> href, name |-> name, headline |-> headline]

\* search.ts:465-476  relevance: 10 for each keyword `${name} ${headline}`
\* includes, 20 more when it includes the whole query
RECURSIVE KeywordRelevance(_, _, _)
KeywordRelevance(keywordList, combined, i) ==
    IF i > Len(keywordList) THEN 0
    ELSE (IF includes(combined, keywordList[i]) THEN 10 ELSE 0)
         + KeywordRelevance(keywordList, combined, i + 1)

CardRelevance(card, keywords) ==
    LET combined == toLowerCase(card.name \o <<" ">> \o card.headline)
    IN KeywordRelevance(splitWhitespace(toLowerCase(keywords)), combined, 1)
         + (IF includes(combined, toLowerCase(keywords)) THEN 20 ELSE 0)

\* search.ts:483-486  href.split('?')[0], made absolute
FullUrl(href) == <<"https://www.linkedin.com">> \o split(href, "?")[1]

\* search.ts:452-495  the loop over the cards, from card i on
RECURSIVE CollectCards(_, _, _, _)
CollectCards(profileData, cards, keywords, i) ==
    IF i > Len(cards) THEN profileData
    ELSE LET card == cards[i]
             relevance == CardRelevance(card, keywords)
             fullUrl == FullUrl(card.href)
             next ==
               IF card.href = <<>> \/ ~includes(card.href, <<"in">>)
               THEN profileData
               ELSE IF relevance = 0
                       /\ Len(splitWhitespace(toLowerCase(keywords))) > 1
               THEN profileData
               ELSE IF \E j \in 1..Len(profileData) :
                          profileData[j].url = fullUrl
               THEN profileData
               ELSE Append(profileData,
                           [url |-> fullUrl, relevance |-> relevance])
         IN CollectCards(next, cards, keywords, i + 1)

\* CollectCards without the relevance test (used by searchPeople_keepAll):
\* cards of relevance 0 are kept whatever the query.
RECURSIVE CollectCards_keepAll(_, _, _, _)
CollectCards_keepAll(profileData, cards, keywords, i) ==
    IF i > Len(cards) THEN profileData
    ELSE LET card == cards[i]
             fullUrl == FullUrl(card.href)
             next ==
               IF card.href = <<>> \/ ~includes(card.href, <<"in">>)
               THEN profileData
               ELSE IF \E j \in 1..Len(profileData) :
                          profileData[j].url = fullUrl
               THEN profileData
               ELSE Append(profileData,
                           [url |-> fullUrl,
                            relevance |-> CardRelevance(card, keywords)])
         IN CollectCards_keepAll(next, cards, keywords, i + 1)

\* Array.prototype.sort((a, b) => b.relevance - a.relevance): descending
\* relevance, stable
RECURSIVE InsertByRelevance(_, _)
InsertByRelevance(sorted, p) ==
    IF sorted = <<>> THEN <<p>>
    ELSE IF p.relevance > sorted[1].relevance THEN <<p>> \o sorted
    ELSE <<sorted[1]>> \o InsertByRelevance(Tail(sorted), p)

RECURSIVE sortByRelevance(_)
sortByRelevance(list) ==
    IF list = <<>> THEN <<>>
    ELSE InsertByRelevance(sortByRelevance(SubSeq(list, 1, Len(list) - 1)),
                           list[Len(list)])

\* Variant of searchPeople for the sensitivity of C20: on CollectCards_keepAll.
searchPeople_keepAll(cards, keywords) ==
    LET profileData ==
          sortByRelevance(CollectCards_keepAll(<<>>, cards, keywords, 1))
    IN [i \in 1..Len(profileData) |-> profileData[i].url]

\* search.ts:431-505  searchPeople on the cards the page shows: the URLs
searchPeople(cards, keywords) ==
    LET profileData == sortByRelevance(CollectCards(<<>>, cards, keywords, 1))
    IN [i \in 1..Len(profileData) |-> profileData[i].url]

\* the inputs of the discovery checks
MaxCards == 2
SearchPmOps == <<"p", "m", " ", "o", "p", "s">>
SearchPm == <<"P", "M">>
SearchPmOpsLoose == <<"P", "M", " ", " ", "o", "p", "s", " ">>
Searches == {SearchPmOps, SearchPm, SearchPmOpsLoose}
Hrefs == {<<>>, <<"in", "a">>, <<"in", "b">>, <<"in", "a", "?", "t">>,
          <<"company", "c">>}
Names == {<<"A", "n", "n">>, <<"P", "a", "t">>}
Headlines == {<<"P", "M", " ", "O", "p", "s">>, <<"o", "p", "s">>, <<"x">>}
Cards == {Card(h, n, l) : h \in Hrefs, n \in Names, l \in Headlines}
CardLists == UNION {[1..n -> Cards] : n \in 0..MaxCards}

\* engine.ts:129, 153  the loop asks for the candidates of the page
SearchPeopleCalled ==
    /\ call.fn = "" /\ Len(call.args) = 2
    /\ call' = [call EXCEPT
                  !.fn = "searchPeople",
                  !.result = searchPeople(call.args[1], call.args[2])]
    /\ UNCHANGED <<engineVars, schedVars>>

(* ------------------------------ delays -------------------------------- *)
\* Math.random() is k / RandomSteps for a k in 0..RandomSteps-1
RandomSteps == 5000

\* Math.floor(Math.random() * n) for the draw k
FloorRandom(k, n) == (k * n) \div RandomSteps

\* Variant of randomDelay for the sensitivity of C21: the quick action may
\* take as little as 1500 ms.
randomDelay_quicker(min, max, extra, k) ==
    IF 10 * extra < RandomSteps THEN FloorRandom(k, 1000) + 1500
    ELSE IF 100 * extra > 95 * RandomSteps THEN FloorRandom(k, 5000) + 8000
    ELSE FloorRandom(k, max - min + 1) + min

\* delays.ts:37-52  randomDelay(min, max) for the draws extra (extraRandom)
\* and k (the draw of the branch taken): extraRandom < 0.1, > 0.95, else
randomDelay(min, max, extra, k) ==
    IF 10 * extra < RandomSteps THEN FloorRandom(k, 1000) + 2000
    ELSE IF 100 * extra > 95 * RandomSteps THEN FloorRandom(k, 5000) + 8000
    ELSE FloorRandom(k, max - min + 1) + min

\* the inputs of the delay checks: bounds in ms, and draws at the ends of
\* each range of Math.random() and at the two thresholds
DelayBounds == {0, 300, 1200, 3000}
ExtraDraws == {0, (RandomSteps \div 10) - 1, RandomSteps \div 10,
               RandomSteps \div 2, (95 * RandomSteps) \div 100,
               (95 * RandomSteps) \div 100 + 1, RandomSteps - 1}
Draws == {0, 1, RandomSteps \div 2, RandomSteps - 1}

\* delays.ts:57-63  humanDelay takes its delay from randomDelay
RandomDelayCalled ==
    /\ call.fn = "" /\ Len(call.args) = 4
    /\ call' = [call EXCEPT
                  !.fn = "randomDelay",
                  !.result = <<randomDelay(call.args[1], call.args[2],
                                           call.args[3], call.args[4])>>]
    /\ UNCHANGED <<engineVars, schedVars>>

\* delays.ts:5-13  sessionBehavior as the module is loaded (the fields the
\* micro-break uses)
ModuleBehavior == [profilesBeforePause |-> 0, pauseThreshold |-> 0]

\* draws of Math.random() that make Math.floor(random * n) take every value
\* for the n used by the micro-break (15 and 5)
BreakDraws == {334 * j : j \in 0..14}

\* delays.ts:19-32  initSessionBehavior
InitSessionBehavior ==
    /\ \E k \in BreakDraws :
          sessionBehavior' = [profilesBeforePause |-> FloorRandom(k, 15) + 20,
                              pauseThreshold |-> 0]
    /\ call' = [fn |-> "initSessionBehavior", args |-> <<>>, result |-> <<>>]
    /\ UNCHANGED <<now, pageOpen, loggedIn, pageUrl, configStore, dbSessions,
                   dbProfiles, activeSession, objs, loops, reqs, reply, ui,
                   log, quota, cpu, dbUserProfile, schedVars>>

\* delays.ts:188  the threshold drawn after a break
breakThreshold(k) == FloorRandom(k, 5) + 3

\* delays.ts:178-190  takeMicroBreak: count the invocation; at the threshold
\* sleep 10-30 s, then reset the counter and draw the next threshold
TakeMicroBreak ==
    /\ LET count == sessionBehavior.pauseThreshold + 1
       IN IF count >= sessionBehavior.profilesBeforePause
          THEN \E k \in BreakDraws, d \in {0, RandomSteps - 1} :
                 /\ sessionBehavior' =
                       [profilesBeforePause |-> breakThreshold(k),
                        pauseThreshold |-> 0]
                 /\ call' = [fn |-> "takeMicroBreak", args |-> <<>>,
                             result |-> <<FloorRandom(d, 20000) + 10000>>]
          ELSE /\ sessionBehavior' =
                     [sessionBehavior EXCEPT !.pauseThreshold = count]
               /\ call' = [fn |-> "takeMicroBreak", args |-> <<>>,
                           result |-> <<0>>]
    /\ UNCHANGED <<now, pageOpen, loggedIn, pageUrl, configStore, dbSessions,
                   dbProfiles, activeSession, objs, loops, reqs, reply, ui,
                   log, quota, cpu, dbUserProfile, schedVars>>

(* --------------------------- user profile ----------------------------- *)
\* JSON.stringify of a value, as the text a column holds, and JSON.parse of
\* such a text
JSON_stringify(value) == <<"JSON", value>>
JSON_parse(text) == text[2]

\* sqlite.ts:127-145  userProfileQueries.save: the DELETE statement is
\* prepared and never run; the INSERT adds a row
userProfileQueries_save(rows, profile) ==
    Append(rows, [id |-> Len(rows) + 1,
                  linkedin_url |-> profile.linkedin_url,
                  name |-> profile.name,
                  headline |-> IF profile.headline = "" THEN SqlNull
                               ELSE profile.headline,
                  industry |-> IF profile.industry = "" THEN SqlNull
                               ELSE profile.industry,
                  data |-> JSON_stringify(profile.data)])

\* sqlite.ts:147-153  userProfileQueries.get: SELECT * ... LIMIT 1 with no
\* ORDER BY, which SQLite answers with the row of the lowest rowid; <<>> for
\* undefined
userProfileQueries_get(rows) ==
    IF rows = <<>> THEN <<>>
    ELSE <<[rows[1] EXCEPT !.data = JSON_parse(@)]>>

\* analyzer.ts:236-242  getSavedUserProfile: saved.data, <<>> for null
getSavedUserProfile(rows) ==
    LET saved == userProfileQueries_get(rows)
    IN IF saved = <<>> THEN <<>> ELSE <<saved[1].data>>

\* what the scrape of /in/me/ and the enrichment may give
MaxAnalyses == 3
UserProfiles == [name : {"ann", "bob"}, headline : {"", "pm"},
                 industry : {"", "tech"}]

\* analyzer.ts:127-172  analyzeUserProfile: page.goto(/in/me) on the shared
\* page, scrape, enrich, save.  A navigation that throws is caught: nothing
\* is saved and null is returned (ok = FALSE).
analyzeUserProfile(userProfile, ok) ==
    /\ IF ok
       THEN /\ pageUrl' = <<"in", "me">>
            /\ dbUserProfile' = userProfileQueries_save(dbUserProfile,
                  [linkedin_url |-> <<"in", "me">>,
                   name |-> userProfile.name,
                   headline |-> userProfile.headline,
                   industry |-> userProfile.industry,
                   data |-> userProfile])
            /\ call' = [fn |-> "analyzeUserProfile",
                        args |-> <<userProfile, Len(dbUserProfile) + 1>>,
                        result |-> <<>>]
       ELSE /\ call' = [fn |-> "analyzeUserProfile",
                        args |-> <<userProfile, 0>>, result |-> <<>>]
            /\ UNCHANGED <<dbUserProfile, pageUrl>>
    /\ UNCHANGED <<schedVars, now, pageOpen, loggedIn, configStore,
                   dbSessions, dbProfiles, activeSession, objs, loops, reqs,
                   reply, ui, log, quota, cpu, sessionBehavior>>

\* routes.ts:605-613  POST /user-profile/analyze, the page being open
AnalyzeUserProfile ==
    /\ pageOpen
    /\ Len(dbUserProfile) < MaxAnalyses
    /\ \E userProfile \in UserProfiles, ok \in BOOLEAN :
          analyzeUserProfile(userProfile, ok)

\* POST /user-profile/analyze with the engine in any state: the route and
\* the function look at no session state.  One analysis of one own profile
\* is enough for the page.
AnalyzeRequested ==
    /\ cpu = NULL
    /\ pageOpen
    /\ dbUserProfile = <<>>
    /\ \E ok \in BOOLEAN :
          analyzeUserProfile([name |-> "ann", headline |-> "pm",
                              industry |-> "tech"], ok)

\* engine.ts:43-45, 50-52  the loop reads the saved profile before it scores
\* or composes a message
SavedUserProfileRead ==
    /\ call' = [fn |-> "getSavedUserProfile", args |-> <<>>,
                result |-> getSavedUserProfile(dbUserProfile)]
    /\ UNCHANGED <<engineVars, schedVars>>

(* ----------------------------- scheduler ------------------------------ *)
\* scheduleQueries.get() of an empty table, seen through `schedule || {...}`;
\* id is the row's AUTOINCREMENT key
NoSchedule == [id |-> 0, enabled |-> FALSE, times |-> <<>>, days |-> <<>>,
               search_keywords |-> ""]

\* sqlite.ts:158-174  scheduleQueries.save: the DELETE statement is prepared
\* and never run; the INSERT adds a row
scheduleQueries_save(rows, schedule) ==
    Append(rows, [id |-> Len(rows) + 1,
                  enabled |-> IF schedule.enabled THEN 1 ELSE 0,
                  times |-> JSON_stringify(schedule.times),
                  days |-> JSON_stringify(schedule.days),
                  search_keywords |-> schedule.search_keywords])

\* sqlite.ts:176-184  scheduleQueries.get: the row of the highest id, parsed
scheduleQueries_get(rows) ==
    IF rows = <<>> THEN NoSchedule
    ELSE LET row == rows[CHOOSE i \in 1..Len(rows) :
                           \A j \in 1..Len(rows) : rows[j].id <= rows[i].id]
         IN [id |-> row.id,
             enabled |-> row.enabled # 0,
             times |-> JSON_parse(row.times),
             days |-> JSON_parse(row.days),
             search_keywords |-> row.search_keywords]

\* the rule the scheduler reads from the table
savedSchedule == scheduleQueries_get(dbSchedules)

\* jobs.ts dayMap[d.toLowerCase()], NaN for undefined
dayMap(d) ==
    LET l == toLowerCase(d)
    IN CASE l = <<"s", "u", "n">> -> 0 [] l = <<"m", "o", "n">> -> 1
         [] l = <<"t", "u", "e">> -> 2 [] l = <<"w", "e", "d">> -> 3
         [] l = <<"t", "h", "u">> -> 4 [] l = <<"f", "r", "i">> -> 5
         [] l = <<"s", "a", "t">> -> 6 [] OTHER -> NaN

\* days.map(d => dayMap[d.toLowerCase()]).filter(d => d !== undefined)
ValidDays(days) == {dayMap(days[i]) : i \in 1..Len(days)} \ {NaN}

\* const [hours, minutes] = time.split(':').map(Number); a missing element
\* is undefined, and isNaN(undefined) is true
ParseTime(time) ==
    LET parts == split(time, ":")
    IN [hours |-> Number(parts[1]),
        minutes |-> IF Len(parts) >= 2 THEN Number(parts[2]) ELSE NaN]

\* jobs.ts:124-130  clearAllJobs: stop the tasks activeJobs holds, then clear
clearAllJobs(jobs, active) ==
    [j \in 1..Len(jobs) |->
        IF \E t \in DOMAIN active : active[t] = j
        THEN [jobs[j] EXCEPT !.running = FALSE] ELSE jobs[j]]

\* node-cron's validation of `${minutes} ${hours} * * ${cronDays}`:
\* cron.schedule throws unless minute is 0-59 and hour 0-23
CronAccepts(t) == t.hours \in 0..23 /\ t.minutes \in 0..59

\* jobs.ts:54-74  the loop over schedule.times, from entry i on: a task per
\* valid time, kept in activeJobs under the time string
RECURSIVE ScheduleTimes(_, _, _)
ScheduleTimes(st, schedule, i) ==
    IF i > Len(schedule.times) THEN st
    ELSE LET time == schedule.times[i]
             t == ParseTime(time)
         IN IF t.hours = NaN \/ t.minutes = NaN \/ ~CronAccepts(t)
            THEN ScheduleTimes(st, schedule, i + 1)
            ELSE LET job == [time |-> time, hours |-> t.hours,
                             minutes |-> t.minutes,
                             days |-> ValidDays(schedule.days),
                             keywords |-> schedule.search_keywords,
                             rule |-> schedule.id,
                             running |-> TRUE]
                     jobs == Append(st.jobs, job)
                 IN ScheduleTimes(
                      [jobs |-> jobs,
                       active |-> [x \in DOMAIN st.active \cup {time} |->
                                     IF x = time THEN Len(jobs)
                                     ELSE st.active[x]]],
                      schedule, i + 1)

\* jobs.ts:23-75  setupSchedule: the tasks and activeJobs it leaves
setupSchedule(jobs, active, schedule) ==
    LET cleared == [jobs |-> clearAllJobs(jobs, active), active |-> <<>>]
    IN IF ~schedule.enabled \/ schedule.times = <<>> THEN cleared
       ELSE IF ValidDays(schedule.days) = {} THEN cleared
       ELSE ScheduleTimes(cleared, schedule, 1)

MinutesPerHour == 60
MinutesPerDay == 24 * MinutesPerHour

\* the instant, in minutes from a Sunday 00:00, of h:m on day number `day`
At(day, h, m) == day * MinutesPerDay + h * MinutesPerHour + m

\* Date.prototype.getDay of an instant
getDay(instant) == (instant \div MinutesPerDay) % 7

\* new Date(checkDate).setHours(hours, minutes, 0, 0): NaN for an Invalid
\* Date; hours past 23 roll over into the following days
setHours(checkDate, hours, minutes) ==
    IF hours = NaN \/ minutes = NaN THEN NaN
    ELSE At(checkDate \div MinutesPerDay, hours, minutes)

\* jobs.ts:162-171  the loop over schedule.times.sort() for one day, from
\* entry i on: the first instant after now, <<>> if none
RECURSIVE FirstTimeAfter(_, _, _, _)
FirstTimeAfter(times, checkDate, instant, i) ==
    IF i > Len(times) THEN <<>>
    ELSE LET t == ParseTime(times[i])
             scheduledTime == setHours(checkDate, t.hours, t.minutes)
         IN IF scheduledTime # NaN /\ scheduledTime > instant
            THEN <<scheduledTime>>
            ELSE FirstTimeAfter(times, checkDate, instant, i + 1)

\* jobs.ts:156-172  the loop over daysAhead, from daysAhead on
RECURSIVE FirstDayAfter(_, _, _)
FirstDayAfter(schedule, instant, daysAhead) ==
    IF daysAhead > 7 THEN <<>>
    ELSE LET checkDate == instant + daysAhead * MinutesPerDay
             found == FirstTimeAfter(sort(schedule.times), checkDate,
                                     instant, 1)
         IN IF getDay(checkDate) \in ValidDays(schedule.days)
               /\ found # <<>>
            THEN found
            ELSE FirstDayAfter(schedule, instant, daysAhead + 1)

\* jobs.ts:135-173  getNextScheduledTime at `instant`: <<>> for null, else
\* the one-element sequence of the Date
getNextScheduledTime(schedule, instant) ==
    IF schedule.id = 0 \/ ~schedule.enabled \/ schedule.times = <<>>
    THEN <<>>
    ELSE IF ValidDays(schedule.days) = {} THEN <<>>
    ELSE FirstDayAfter(schedule, instant, 0)

\* the rules a PUT /schedule may carry
MaxTimes == 2
MaxRules == 2
T0900 == <<"0", "9", ":", "0", "0">>
T1000 == <<"1", "0", ":", "0", "0">>
T900 == <<"9", ":", "0", "0">>
Txx == <<"x", "x">>
TimeStrings == {T0900, T1000, T900, Txx}
TimeLists == UNION {[1..n -> TimeStrings] : n \in 0..MaxTimes}
DayLists == {<<>>, <<<<"M", "o", "n">>, <<"w", "e", "d">>>>,
             <<<<"n", "o", "n", "e">>>>}
Rules == [enabled : BOOLEAN, times : TimeLists, days : DayLists,
          search_keywords : {"kw"}]

\* the instants at which the next run is asked for
Nows == {At(1, 8, 0), At(2, 10, 0), At(3, 9, 0), At(6, 23, 0)}

\* routes.ts PUT /schedule: scheduleQueries.save, then setupSchedule
PutSchedule ==
    /\ savedSchedule.id < MaxRules
    /\ \E rule \in Rules :
          LET schedule == [id |-> Len(dbSchedules) + 1,
                           enabled |-> rule.enabled, times |-> rule.times,
                           days |-> rule.days,
                           search_keywords |-> rule.search_keywords]
              st == setupSchedule(cronJobs, activeJobs, schedule)
          IN /\ dbSchedules' = scheduleQueries_save(dbSchedules, rule)
             /\ cronJobs' = st.jobs
             /\ activeJobs' = st.active
             /\ call' = [fn |-> "PUT /schedule",
                         args |-> <<rule, schedule.id>>, result |-> <<>>]
    /\ UNCHANGED engineVars

\* jobs.ts:65-67  node-cron runs the callback of a task that was not stopped,
\* at its minute of one of its days: runScheduledSession(search_keywords)
CronFires(j) ==
    /\ j \in 1..Len(cronJobs)
    /\ cronJobs[j].running
    /\ \E day \in cronJobs[j].days :
          call' = [fn |-> "runScheduledSession",
                   args |-> <<cronJobs[j].keywords, cronJobs[j].rule,
                              At(day, cronJobs[j].hours, cronJobs[j].minutes)>>,
                   result |-> <<>>]
    /\ UNCHANGED <<engineVars, schedVars>>

\* jobs.ts:178-189  getSchedulerStatus().nextRun at some instant
NextRunAsked ==
    /\ \E instant \in Nows :
          call' = [fn |-> "getNextScheduledTime", args |-> <<instant>>,
                   result |-> getNextScheduledTime(savedSchedule, instant)]
    /\ UNCHANGED <<engineVars, schedVars>>

(* --------------------------- specification ---------------------------- *)
NoCall == [fn |-> "", args |-> <<>>, result |-> <<>>]

Init ==
    /\ now = 0
    /\ pageOpen = FALSE
    /\ loggedIn \in BOOLEAN
    /\ pageUrl = BlankUrl
    /\ configStore \in [keywords : {""}, threshold : {0},
                        maxProfiles : StoredCaps,
                        maxDuration : StoredDurations,
                        enableConnect : BOOLEAN, enableFollow : BOOLEAN]
    /\ quota = IF configStore.enableConnect \/ configStore.enableFollow
               THEN MaxActingRequests ELSE MaxRequests
    /\ dbSessions = <<>>
    /\ dbProfiles = <<>>
    /\ activeSession = NULL
    /\ objs = <<>>
    /\ loops = <<>>
    /\ reqs = <<>>
    /\ reply = Reply("", "")
    /\ log = ""
    /\ ui = [id |-> NULL, running |-> FALSE, profilesViewed |-> 0,
             connectionsSent |-> 0, followsSent |-> 0]
    /\ cpu = NULL
    /\ dbUserProfile = <<>>
    /\ sessionBehavior = ModuleBehavior
    /\ dbSchedules = <<>>
    /\ cronJobs = <<>>
    /\ activeJobs = <<>>
    /\ call = NoCall

\* the engine before any login or start
EngineIdle ==
    /\ now = 0
    /\ pageOpen = FALSE
    /\ loggedIn = FALSE
    /\ pageUrl = BlankUrl
    /\ configStore = [keywords |-> "", threshold |-> 0, maxProfiles |-> 0,
                      maxDuration |-> 0, enableConnect |-> FALSE,
                      enableFollow |-> FALSE]
    /\ quota = 0
    /\ dbSessions = <<>>
    /\ dbProfiles = <<>>
    /\ activeSession = NULL
    /\ objs = <<>>
    /\ loops = <<>>
    /\ reqs = <<>>
    /\ reply = Reply("", "")
    /\ log = ""
    /\ ui = [id |-> NULL, running |-> FALSE, profilesViewed |-> 0,
             connectionsSent |-> 0, followsSent |-> 0]
    /\ cpu = NULL
    /\ dbUserProfile = <<>>
    /\ sessionBehavior = ModuleBehavior

\* the scheduler on its own: rules are saved, tasks fire, the next run is
\* asked for
SchedInit ==
    /\ EngineIdle
    /\ dbSchedules = <<>>
    /\ cronJobs = <<>>
    /\ activeJobs = <<>>
    /\ call = NoCall

SchedNext ==
    \/ PutSchedule
    \/ \E j \in 1..(MaxRules * MaxTimes) : CronFires(j)
    \/ NextRunAsked

SchedSpec == SchedInit /\ [][SchedNext]_vars

\* the scorer on its own: profiles are scored against queries
ScoreInit ==
    /\ EngineIdle
    /\ dbSchedules = <<>>
    /\ cronJobs = <<>>
    /\ activeJobs = <<>>
    /\ \E profile \in Profiles, keywords \in Queries, ai \in AIOutcomes :
          call = [NoCall EXCEPT !.args = <<profile, keywords, ai>>]

ScoreNext == ScoreProfileCalled

ScoreSpec == ScoreInit /\ [][ScoreNext]_vars

\* discovery on its own: a page of cards is searched with a query
DiscoveryInit ==
    /\ EngineIdle
    /\ dbSchedules = <<>>
    /\ cronJobs = <<>>
    /\ activeJobs = <<>>
    /\ \E cards \in CardLists, keywords \in Searches :
          call = [NoCall EXCEPT !.args = <<cards, keywords>>]

DiscoveryNext == SearchPeopleCalled

DiscoverySpec == DiscoveryInit /\ [][DiscoveryNext]_vars

\* the delay model on its own: a delay is drawn between two bounds
DelayInit ==
    /\ EngineIdle
    /\ dbSchedules = <<>>
    /\ cronJobs = <<>>
    /\ activeJobs = <<>>
    /\ \E min \in DelayBounds, max \in DelayBounds,
          extra \in ExtraDraws, k \in Draws :
          call = [NoCall EXCEPT !.args = <<min, max, extra, k>>]

DelayNext == RandomDelayCalled

DelaySpec == DelayInit /\ [][DelayNext]_vars

\* the user profile store on its own: the own profile is analysed and read
\* back, with a browser page open
StoreInit ==
    /\ now = 0
    /\ pageOpen = TRUE
    /\ loggedIn = TRUE
    /\ pageUrl = FeedUrl
    /\ configStore = [keywords |-> "", threshold |-> 0, maxProfiles |-> 0,
                      maxDuration |-> 0, enableConnect |-> FALSE,
                      enableFollow |-> FALSE]
    /\ quota = 0
    /\ dbSessions = <<>>
    /\ dbProfiles = <<>>
    /\ activeSession = NULL
    /\ objs = <<>>
    /\ loops = <<>>
    /\ reqs = <<>>
    /\ reply = Reply("", "")
    /\ log = ""
    /\ ui = [id |-> NULL, running |-> FALSE, profilesViewed |-> 0,
             connectionsSent |-> 0, followsSent |-> 0]
    /\ cpu = NULL
    /\ dbUserProfile = <<>>
    /\ sessionBehavior = ModuleBehavior
    /\ dbSchedules = <<>>
    /\ cronJobs = <<>>
    /\ activeJobs = <<>>
    /\ call = NoCall

BreakInit ==
    /\ EngineIdle
    /\ dbSchedules = <<>>
    /\ cronJobs = <<>>
    /\ activeJobs = <<>>
    /\ call = NoCall

BreakNext == InitSessionBehavior \/ TakeMicroBreak

BreakSpec == BreakInit /\ [][BreakNext]_vars

StoreNext ==
    \/ AnalyzeUserProfile
    \/ SavedUserProfileRead

StoreSpec == StoreInit /\ [][StoreNext]_vars

Sessions == 1..MaxRequests

Next ==
    \/ StartLogin
    \/ RouteStart
    \/ TriggerFires
    \/ \E r \in 1..MaxRequests : TriggerLoginReturns(r)
    \/ \E r \in 1..MaxRequests : TriggerCallsStart(r)
    \/ \E r \in 1..MaxRequests : LoginReturns(r)
    \/ \E r \in 1..MaxRequests : StartResumes(r)
    \/ RouteStop
    \/ Tick
    \/ \E sid \in Sessions : SearchReturns(sid)
    \/ \E sid \in Sessions : LoopContinues(sid)
    \/ \E sid \in Sessions : NextPageReturns(sid)
    \/ \E sid \in Sessions : MoreUrlsReturn(sid)
    \/ \E sid \in Sessions : ViewReturns(sid)
    \/ \E sid \in Sessions : ScoreReturns(sid)
    \/ \E sid \in Sessions : MessageReturns(sid)
    \/ \E sid \in Sessions : ConnectReturns(sid)
    \/ \E sid \in Sessions : FollowReturns(sid)
    \/ \E sid \in Sessions : DelayReturns(sid)

Spec == Init /\ [][Next]_vars

\* The engine together with the analysis of the own profile, for runs capped
\* at one profile.
PageInit == Init /\ configStore.maxProfiles = 1

PageNext == Next \/ AnalyzeRequested

PageSpec == PageInit /\ [][PageNext]_vars

\* Every awaited call returns: a loop suspended in an await is resumed, a start
\* request suspended in its login check is resumed, and a continuation of the
\* loop that holds the thread runs.  Requests, stops, trigger fires and the
\* clock are the environment's and carry no fairness.
Resumes ==
    \/ \E r \in 1..MaxRequests : TriggerLoginReturns(r)
    \/ \E r \in 1..MaxRequests : TriggerCallsStart(r)
    \/ \E r \in 1..MaxRequests : LoginReturns(r)
    \/ \E r \in 1..MaxRequests : StartResumes(r)
    \/ \E sid \in Sessions : SearchReturns(sid)
    \/ \E sid \in Sessions : LoopContinues(sid)
    \/ \E sid \in Sessions : NextPageReturns(sid)
    \/ \E sid \in Sessions : MoreUrlsReturn(sid)
    \/ \E sid \in Sessions : ViewReturns(sid)
    \/ \E sid \in Sessions : ScoreReturns(sid)
    \/ \E sid \in Sessions : MessageReturns(sid)
    \/ \E sid \in Sessions : ConnectReturns(sid)
    \/ \E sid \in Sessions : FollowReturns(sid)
    \/ \E sid \in Sessions : DelayReturns(sid)

FairSpec == Spec /\ WF_vars(Resumes)

(* ------------------------------ properties ---------------------------- *)
\* the runs whose persisted status is 'running'
RunningRuns == {i \in 1..Len(dbSessions) : dbSessions[i].status = "running"}

\* loop sid ran in this step: its frame changed, or it skipped a candidate
\* and holds the thread
LoopStepped(sid) == loops'[sid] # loops[sid] \/ cpu' = sid

\* the profile rows this step inserted
NewProfiles == {dbProfiles'[i] : i \in Len(dbProfiles) + 1 .. Len(dbProfiles')}

\* C1: at every reachable state at most one run is Running, whatever the
\* interleaving of start requests (two requests suspended in their login
\* check included): no two rows of the sessions table have status 'running'.
C1_AtMostOneRunning == Cardinality(RunningRuns) <= 1

\* C2: after stop-run then start-run, once the new run is Running the loop of
\* the stopped run takes no further step (no visit, no record, no counter
\* update, no stop-condition check).
C2_StoppedLoopIsQuiet ==
    [][\A sid \in 1..Len(loops) :
          (/\ dbSessions[sid].status = "stopped"
           /\ activeSession # NULL /\ activeSession # sid
           /\ objs[activeSession].running)
          => ~LoopStepped(sid)]_vars

\* C3: the profilesViewed of a run never exceeds the maxProfiles it was
\* started with, in the run's counters and in its persisted row.
C3_ViewedWithinCap ==
    /\ \A sid \in 1..Len(objs) :
          objs[sid].stats.profilesViewed <= objs[sid].config.maxProfiles
    /\ \A i \in 1..Len(dbSessions) :
          dbSessions[i].profiles_viewed <= dbSessions[i].config.maxProfiles

\* C3 witness: a run has made exactly maxProfiles visits and its loop left at
\* the cap check.
C3_CapReached ==
    /\ log = "Profile limit reached"
    /\ \E i \in 1..Len(dbSessions) :
          /\ dbSessions[i].profiles_viewed = dbSessions[i].config.maxProfiles
          /\ dbSessions[i].status = "completed"

\* C4: no two rows of the profiles table share a linkedin_id, across all
\* runs; a duplicate insert adds no row.
C4_UniqueLinkedinId ==
    \A i, j \in 1..Len(dbProfiles) :
        dbProfiles[i].linkedin_id = dbProfiles[j].linkedin_id => i = j

\* C4 witness: an insert of an identifier already stored was attempted and
\* rejected by the table.
C4_DuplicateRejected == log = "SQLITE_CONSTRAINT" /\ Len(dbProfiles) >= 1

\* C5: when the popped candidate's identifier already exists in the store the
\* iteration is a skip: no page visit, no profile row, no counter changes,
\* only the cursor advances.
C5_SkipChangesOnlyCursor ==
    [][(/\ activeSession # NULL /\ activeSession' = activeSession
        /\ objs'[activeSession].currentPageIndex
              = objs[activeSession].currentPageIndex + 1
        /\ LET o == objs'[activeSession]
               profileId == ProfileIdOf(o.profileUrls[o.currentPageIndex])
           IN profileId # "" /\ profileQueries_exists(dbProfiles, profileId))
       => /\ pageUrl' = pageUrl
          /\ dbProfiles' = dbProfiles
          /\ dbSessions' = dbSessions
          /\ ui' = ui
          /\ \A sid \in 1..Len(objs) : objs'[sid].stats = objs[sid].stats
          /\ \A sid \in 1..Len(loops) :
                loops'[sid].pc = "view" => loops[sid].pc = "view"]_vars

\* C5 witness: a loop has just skipped a candidate whose identifier is stored.
C5_Skipped ==
    /\ cpu # NULL /\ activeSession # NULL
    /\ LET o == objs[activeSession]
       IN /\ o.currentPageIndex >= 1
          /\ profileQueries_exists(dbProfiles,
                ProfileIdOf(o.profileUrls[o.currentPageIndex]))

\* the wall-clock time of run sid has reached its maxDuration
Elapsed(sid) ==
    now - objs[sid].stats.startTime
        >= objs[sid].config.maxDuration * MsPerMinute

\* C6: once an iteration-boundary check of a run sees its maxDuration
\* elapsed, the run visits no further candidate: the loop step that makes the
\* check ends the loop and does not navigate.
C6_NoVisitAfterDuration ==
    [][\A sid \in 1..Len(loops) :
          (/\ loops[sid].pc \in {"search0", "top", "delay"}
           /\ Elapsed(sid)
           /\ LoopStepped(sid))
          => loops'[sid].pc = "done" /\ pageUrl' = pageUrl]_vars

\* C6 witness: a loop left at the duration check after its run had visited a
\* profile.
C6_DurationReached ==
    /\ log = "Time limit reached"
    /\ \E i \in 1..Len(dbSessions) :
          dbSessions[i].status = "completed"
          /\ dbSessions[i].profiles_viewed >= 1

\* C7: after an external stop request the run visits no further candidate and
\* its terminal status is Stopped: a run whose row says 'stopped' starts no
\* visit, and the row keeps that status.
C7_StoppedRunVisitsNothing ==
    [][\A sid \in 1..Len(loops) :
          dbSessions[sid].status = "stopped"
          => /\ dbSessions'[sid].status = "stopped"
             /\ loops'[sid].pc = "view" => loops[sid].pc = "view"]_vars

\* C8: once the terminal record of a run is persisted (its row has an end
\* timestamp), no later step changes that row and no profile row owned by
\* the run is inserted.
C8_TerminalRowFrozen ==
    [][\A i \in 1..Len(dbSessions) :
          dbSessions[i].ended_at
          => /\ dbSessions'[i] = dbSessions[i]
             /\ \A p \in NewProfiles : p.session_id # i]_vars

C10_RunsHaveValidConfig ==
    \A i \in 1..Len(dbSessions) :
        /\ dbSessions[i].search_keywords # ""
        /\ dbSessions[i].config.maxProfiles > 0
        /\ dbSessions[i].config.maxDuration > 0


\* C11: a start whose login check finds the page off the feed answers 'Not
\* logged into LinkedIn', and a start without a browser page answers 'Browser
\* not initialized'; either creates no sessions row and no session object,
\* leaves activeSession as it was and starts no loop.
C11_UnauthenticatedStartFails ==
    [][ /\ \A r \in 1..Len(reqs) :
              (LoginReturns(r) /\ (pageUrl = BlankUrl \/ pageUrl[1] # "feed"))
              => /\ reply' = Reply(reqs[r].kind, "Not logged into LinkedIn")
                 /\ reqs' = Remove(reqs, r)
                 /\ UNCHANGED <<dbSessions, dbProfiles, activeSession, objs,
                                loops, ui>>
        /\ (RouteStart /\ ~pageOpen /\ ~getSessionStatus_running
               /\ reply'.result # "Keywords required")
           => /\ reply' = Reply("route", "Browser not initialized")
              /\ UNCHANGED <<reqs, dbSessions, dbProfiles, activeSession,
                             objs, loops, ui>>
      ]_vars

\* C11 happens: a start was refused for want of a login, and no run exists
C11_RefusedNotLoggedIn ==
    /\ reply.result = "Not logged into LinkedIn"
    /\ dbSessions = <<>>
    /\ loops = <<>>
    /\ activeSession = NULL

\* C12 as stated for the visit: the step in which viewProfile returns or
\* fails never ends the loop of a run that is still running.
C12_VisitNeverEndsRun ==
    [][\A sid \in 1..Len(loops) :
          (loops[sid].pc = "view" /\ LoopStepped(sid)
             /\ dbSessions[sid].status = "running")
          => /\ loops'[sid].pc # "done"
             /\ dbSessions'[sid].status = "running"]_vars

\* the rows of run sid whose recorded action is one of `actions`
ActionRows(prof, sid, actions) ==
    {i \in 1..Len(prof) : prof[i].session_id = sid
                           /\ prof[i].action_taken \in actions}

\* C15: a profile row is written with 'followed' in its action only by a run
\* with enableFollow whose score for the profile reached the threshold and
\* whose follow just succeeded, and with 'connected' only by a run with
\* enableConnect whose score reached the threshold; the rows recording a
\* connect or a follow are never more than the successes the run counted.
C15_ActionsWithinPolicy ==
    [][\A p \in NewProfiles :
          LET sid == p.session_id
              config == objs[sid].config
          IN /\ p.action_taken \in {"viewed", "connected", "followed",
                                    "connected+followed"}
             /\ p.action_taken \in {"followed", "connected+followed"}
                => /\ config.enableFollow
                   /\ loops[sid].score >= config.threshold
                   /\ objs'[sid].stats.followsSent
                        = objs[sid].stats.followsSent + 1
             /\ p.action_taken \in {"connected", "connected+followed"}
                => /\ config.enableConnect
                   /\ loops[sid].score >= config.threshold
                   /\ loops[sid].pc = "connect"
                        => objs'[sid].stats.connectionsSent
                             = objs[sid].stats.connectionsSent + 1
             /\ Cardinality(ActionRows(dbProfiles', sid,
                                       {"followed", "connected+followed"}))
                  <= dbSessions'[sid].follows_sent
             /\ Cardinality(ActionRows(dbProfiles', sid,
                                       {"connected", "connected+followed"}))
                  <= dbSessions'[sid].connections_sent]_vars

\* C15 happens: rows of each acting kind were written
C15_Acted ==
    /\ \E i \in 1..Len(dbProfiles) :
          dbProfiles[i].action_taken = "connected+followed"

\* the errors a loop can throw (the values LoopThrows logs)
LoopErrors == {"TypeError", "goto", "SQLITE_CONSTRAINT"}

\* C16 as stated: when the loop of a run whose row is 'running' ends by a
\* throw, that row becomes 'error' with its end time set, the engine is idle
\* and the caller's answer is untouched.
C16_ThrowFailsTheRun ==
    [][\A sid \in 1..Len(loops) :
          (/\ loops[sid].pc # "done" /\ loops'[sid].pc = "done"
           /\ log' \in LoopErrors
           /\ dbSessions[sid].status = "running")
          => /\ dbSessions'[sid].status = "error"
             /\ dbSessions'[sid].ended_at
             /\ activeSession' = NULL
             /\ reply' = reply]_vars

\* C17: a cron job that fires while activeSession.running is true only logs
\* the skip: no request is left pending, the page is not navigated, and the
\* run, the tables and the scheduler are as they were.
C17_BusyFireIsDropped ==
    [][(/\ activeSession # NULL /\ objs[activeSession].running
        /\ TriggerFires)
       => /\ reply' = Reply("trigger", "skipped: already running")
          /\ UNCHANGED <<reqs, pageOpen, pageUrl, loggedIn, configStore,
                         dbSessions, dbProfiles, activeSession, objs, loops,
                         ui, log, now, savedSchedule, cronJobs, activeJobs>>
      ]_vars

\* C17 happens: a fire was skipped while a run is active
C17_FireSkipped ==
    /\ reply = Reply("trigger", "skipped: already running")
    /\ activeSession # NULL
    /\ objs[activeSession].running
    /\ reqs = <<>>

\* C18 as stated: every task that is still running, and so can still fire,
\* was registered for the rule saved last.
C18_OnlyLatestRuleLive ==
    \A j \in 1..Len(cronJobs) :
        cronJobs[j].running => cronJobs[j].rule = savedSchedule.id

\* the (hours, minutes) pairs of a rule's times that are times of day
ClockTimes(schedule) ==
    {t \in {ParseTime(schedule.times[i]) : i \in 1..Len(schedule.times)} :
        t.hours \in 0..23 /\ t.minutes \in 0..59}

\* the instants after `instant`, on the rule's days of the coming week, at
\* which the rule fires
FireInstants(schedule, instant) ==
    LET today == instant \div MinutesPerDay
    IN {x \in {At(day, t.hours, t.minutes) :
                  day \in {d \in today..(today + 7) :
                             d % 7 \in ValidDays(schedule.days)},
                  t \in ClockTimes(schedule)} : x > instant}

Minimum(S) == CHOOSE x \in S : \A y \in S : x <= y

\* C19 as stated: asked at any instant, getNextScheduledTime answers the
\* soonest fire instant of the saved rule, and answers null for a rule that
\* is disabled or has no times or no valid days.
C19_NextRunIsSoonest ==
    [][NextRunAsked
       => LET instant == call'.args[1]
              S == FireInstants(savedSchedule, instant)
          IN IF \/ ~savedSchedule.enabled
                \/ savedSchedule.times = <<>>
                \/ ValidDays(savedSchedule.days) = {}
             THEN call'.result = <<>>
             ELSE S # {} => call'.result = <<Minimum(S)>>]_vars

\* the scoring call failed or its answer could not be used
Unusable(ai) == ai.kind # "content" \/ ai.json = SyntaxError

\* C13 as stated: when the scoring call fails or answers without parsable
\* JSON, scoreProfile returns the score and the category of the keyword
\* heuristic.
C13_UnusableAnswerFallsBack ==
    (call.fn = "scoreProfile" /\ Unusable(call.args[3]))
    => LET heuristic == fallbackScoring(call.args[1], call.args[2])
       IN /\ call.result.score = heuristic.score
          /\ call.result.category = heuristic.category

\* the terms of a comma-separated query found in the combined text
TermsFound(profile, keywords) ==
    LET terms == split(toLowerCase(keywords), ",")
        text == toLowerCase(profile.headline \o <<" ">> \o profile.about
                              \o <<" ">> \o profile.company)
    IN {i \in 1..Len(terms) :
           trim(terms[i]) # <<>> /\ includes(text, trim(terms[i]))}

Extracted(cards) ==
    {i \in 1..Len(cards) : cards[i].href # <<>> /\ cards[i].href[1] = "in"}

\* the relevance weight of a card: 10 for each query term its name and
\* headline contain, 20 more for the whole query
Weight(card, keywords) ==
    LET text == toLowerCase(card.name \o <<" ">> \o card.headline)
        terms == splitWhitespace(toLowerCase(keywords))
    IN 10 * Cardinality({i \in 1..Len(terms) : includes(text, terms[i])})
         + (IF includes(text, toLowerCase(keywords)) THEN 20 ELSE 0)

Range(seq) == {seq[i] : i \in 1..Len(seq)}

C21_DelayInOneOfThreeRanges ==
    (call.fn = "randomDelay" /\ call.args[1] <= call.args[2])
    => \/ call.result[1] \in call.args[1]..call.args[2]
       \/ call.result[1] \in 2000..2999
       \/ call.result[1] \in 8000..12999

\* C21 happens: the long pause at its upper end, outside a base range that
\* lies below both bands
C21_LongestPause ==
    /\ call.fn = "randomDelay"
    /\ call.args[1] <= call.args[2]
    /\ call.args[2] < 2000
    /\ call.result = <<12999>>

\* C23 as stated: once a rule was put, the table holds one row and get()
\* returns the enabled flag, times, days and keywords of the rule put last.
C23_RuleFullyReplaced ==
    call.fn = "PUT /schedule"
    => /\ Len(dbSchedules) <= 1
       /\ LET rule == call.args[1]
              got == scheduleQueries_get(dbSchedules)
          IN /\ got.enabled = rule.enabled
             /\ got.times = rule.times
             /\ got.days = rule.days
             /\ got.search_keywords = rule.search_keywords

\* C22 as stated: the user_profile table never holds more than one row, and
\* a read gives the profile saved last.
C22_OnlyLatestUserProfile ==
    /\ Len(dbUserProfile) <= 1
    /\ (call.fn = "getSavedUserProfile" /\ dbUserProfile # <<>>)
       => call.result
            = <<JSON_parse(dbUserProfile[Len(dbUserProfile)].data)>>

\* the three counters of a run, as a tuple
Counters(stats) ==
    <<stats.profilesViewed, stats.connectionsSent, stats.followsSent>>

\* the three counters of a sessions row
RowCounters(row) ==
    <<row.profiles_viewed, row.connections_sent, row.follows_sent>>

\* no counter of `after` is below the same counter of `before`
NotBelow(after, before) == \A k \in 1..3 : after[k] >= before[k]

\* C24: within a run profilesViewed, connectionsSent and followsSent never
\* decrease, in the run's counters (while the run is the active one or its
\* loop is live) and in its persisted row; and a loop step that makes the
\* iteration-boundary check and goes on finds profilesViewed < maxProfiles.
C24_CountersMonotoneCapChecked ==
    [][\A sid \in 1..Len(loops) :
          /\ (loops'[sid].pc # "done" \/ activeSession' = sid)
             => NotBelow(Counters(objs'[sid].stats), Counters(objs[sid].stats))
          /\ NotBelow(RowCounters(dbSessions'[sid]), RowCounters(dbSessions[sid]))
          /\ (/\ loops[sid].pc \in {"search0", "top", "delay"}
              /\ LoopStepped(sid)
              /\ loops'[sid].pc # "done")
             => objs[sid].stats.profilesViewed < objs[sid].config.maxProfiles
      ]_vars

\* C24 happens: a run with all three counters persisted at 1 or more has
\* passed a boundary check and is in a further iteration.
C24_CountedAndWentOn ==
    \E sid \in 1..Len(loops) :
        /\ \A k \in 1..3 : RowCounters(dbSessions[sid])[k] >= 1
        /\ loops[sid].pc \in {"nextpage", "search", "view"}
        /\ objs[sid].stats.profilesViewed < objs[sid].config.maxProfiles

\* C25: every run that enters Running eventually has a terminal status in its
\* row, and the engine eventually is idle again, provided every awaited call
\* returns.
C25_EveryRunEnds ==
    /\ \A i \in Sessions :
          (i <= Len(dbSessions) /\ dbSessions[i].status = "running")
             ~> (/\ i <= Len(dbSessions)
                 /\ dbSessions[i].status \in {"completed", "stopped", "error"})
    /\ (activeSession # NULL) ~> (activeSession = NULL)

\* C26: a loop step that makes the iteration-boundary check decides in the
\* order external stop, visited cap, time cap: a run stopped from outside ends
\* with its row 'stopped' even if a cap is reached too, a run at its cap ends
\* 'completed' by the cap, a run out of time ends 'completed' by the time,
\* and otherwise the loop goes on unless it throws; a loop that ends for
\* want of candidates leaves its row 'completed' (or 'stopped', if it was
\* stopped meanwhile).
C26_FirstStopConditionDecides ==
    [][\A sid \in 1..Len(loops) :
          LET ended == loops'[sid].pc = "done"
              stopped == dbSessions[sid].status = "stopped"
              status == dbSessions'[sid].status
          IN /\ (loops[sid].pc \in {"search0", "top", "delay"}
                   /\ LoopStepped(sid))
                => IF stopped THEN ended /\ status = "stopped"
                   ELSE IF objs[sid].stats.profilesViewed
                              >= objs[sid].config.maxProfiles
                        THEN /\ ended /\ status = "completed"
                             /\ log' = "Profile limit reached"
                   ELSE IF Elapsed(sid)
                        THEN /\ ended /\ status = "completed"
                             /\ log' = "Time limit reached"
                   ELSE (ended => log' \in LoopErrors)
             /\ (loops[sid].pc \in {"nextpage", "search"} /\ ended
                   /\ log' \notin LoopErrors)
                => status = IF stopped THEN "stopped" ELSE "completed"
      ]_vars

\* C27: when the advance to the next results page succeeded, the page from
\* which the further candidates are read is that next page, not the first
\* page again; when there is no next page the loop ends by exhaustion.
C27_MoreCandidatesFromNextPage ==
    [][\A sid \in 1..Len(loops) :
          (loops[sid].pc = "nextpage" /\ LoopStepped(sid))
          => IF loops'[sid].pc = "search"
             THEN pageUrl' = NextResultsUrl
             ELSE /\ loops'[sid].pc = "done"
                  /\ log' = "No more profiles to visit"]_vars

\* part_001:97, 143  the category that goes with a score
CategoryOf(score) ==
    IF score >= 75 THEN "high" ELSE IF score >= 50 THEN "medium" ELSE "low"

\* C28: every profile row in the table carries the category that goes with
\* its score: high from 75, medium from 50, low below.
C28_RowsCarryCategory ==
    \A i \in 1..Len(dbProfiles) :
        /\ dbProfiles[i].score \in Scores
        /\ dbProfiles[i].category = CategoryOf(dbProfiles[i].score)

\* C29: for a visited profile scored below the threshold no message is
\* composed and neither connect nor follow is called (a loop is in one of
\* those calls only with a score at or above its threshold); its row is
\* written by the scoring step itself, with action 'viewed' and no message,
\* and that step leaves connectionsSent and followsSent as they were.
C29_BelowThresholdOnlyViewed ==
    [][\A sid \in 1..Len(loops) :
          /\ loops'[sid].pc \in {"genmsg", "connect", "follow"}
             => loops'[sid].score >= objs'[sid].config.threshold
          /\ \A p \in NewProfiles :
                (p.session_id = sid /\ p.score < objs[sid].config.threshold)
                => /\ loops[sid].pc = "score"
                   /\ p.action_taken = "viewed"
                   /\ p.message_sent = SqlNull
                   /\ objs'[sid].stats.connectionsSent
                        = objs[sid].stats.connectionsSent
                   /\ objs'[sid].stats.followsSent
                        = objs[sid].stats.followsSent]_vars

\* C29 happens: a run with connect and follow enabled recorded a profile
\* scored below its threshold.
C29_LowScoreRecorded ==
    \E i \in 1..Len(dbProfiles) :
        LET config == dbSessions[dbProfiles[i].session_id].config
        IN /\ config.enableConnect /\ config.enableFollow
           /\ dbProfiles[i].score < config.threshold
           /\ dbProfiles[i].action_taken = "viewed"

\* C30: in a run with enableFollow, a profile scored at or above the
\* threshold is recorded only by the step in which followProfile returns,
\* and that call is made once: it is entered from the scoring step (connect
\* disabled) or from the return of the connection request, succeeded or
\* failed, and is left for the save.  A failed connect or follow changes
\* neither the status of the run nor the counter, and the loop goes on (the
\* step of the follow ends the loop only if the INSERT of the row throws).
C30_FollowWhateverConnectDid ==
    [][\A sid \in 1..Len(loops) :
          LET config == objs[sid].config
              stats == objs[sid].stats
              stepped == LoopStepped(sid)
          IN /\ \A p \in NewProfiles :
                   (/\ p.session_id = sid /\ config.enableFollow
                    /\ p.score >= config.threshold)
                   => loops[sid].pc = "follow"
             /\ (loops'[sid].pc = "follow" /\ loops[sid].pc # "follow")
                => loops[sid].pc = IF config.enableConnect THEN "connect"
                                                           ELSE "score"
             /\ (loops[sid].pc = "connect" /\ stepped /\ config.enableFollow)
                => /\ loops'[sid].pc = "follow"
                   /\ dbSessions'[sid].status = dbSessions[sid].status
                   /\ objs'[sid].stats.connectionsSent
                        = stats.connectionsSent
                          + (IF loops'[sid].action = "connected" THEN 1 ELSE 0)
             /\ (loops[sid].pc = "follow" /\ stepped)
                => IF loops'[sid].pc = "done"
                   THEN log' = "SQLITE_CONSTRAINT"
                   ELSE /\ loops'[sid].pc = "delay"
                        /\ dbSessions'[sid].status = dbSessions[sid].status
                        /\ \E p \in NewProfiles :
                              /\ p.session_id = sid
                              /\ objs'[sid].stats.followsSent
                                   = stats.followsSent
                                     + (IF p.action_taken
                                             \in {"followed", "connected+followed"}
                                        THEN 1 ELSE 0)]_vars

\* C30 happens: a run with connect enabled recorded a profile as followed
\* only (the connection request failed, the follow succeeded) and is still
\* running.
C30_FollowedAfterFailedConnect ==
    \E i \in 1..Len(dbProfiles) :
        LET sid == dbProfiles[i].session_id
        IN /\ dbSessions[sid].config.enableConnect
           /\ dbProfiles[i].action_taken = "followed"
           /\ dbSessions[sid].connections_sent = 0
           /\ dbSessions[sid].status = "running"

\* C31: every iteration of the loop, a skip included, is followed by the
\* delay before the next stop-condition check: a loop that makes the check
\* after an iteration comes out of humanDelay.
C31_EveryIterationPaced ==
    [][\A sid \in 1..Len(loops) :
          (loops[sid].pc \in {"top", "delay"} /\ LoopStepped(sid))
          => loops[sid].pc = "delay"]_vars

\* the number of invocations a forced pause may come after: the range of the
\* initial threshold, 20 to 35
BreakRange == 20..35

\* C32: takeMicroBreak pauses exactly on the invocation at which the counter
\* reaches the threshold, then sets the counter to 0 and draws a threshold
\* from 20-35; so every forced pause comes after 20 to 35 invocations since
\* the pause before (or since the start).
C32_BreakEveryTwentyToThirtyFive ==
    [][TakeMicroBreak =>
         LET count == sessionBehavior.pauseThreshold + 1
             paused == call'.result # <<0>>
         IN /\ paused <=> count >= sessionBehavior.profilesBeforePause
            /\ paused => /\ count \in BreakRange
                         /\ sessionBehavior'.pauseThreshold = 0
                         /\ sessionBehavior'.profilesBeforePause \in BreakRange
            /\ ~paused => sessionBehavior' =
                             [sessionBehavior EXCEPT !.pauseThreshold = count]
      ]_vars

\* C33: the relevance weight searchPeople gives a card it extracts is 10
\* times the number of distinct, non-empty query terms its name and headline
\* contain (case ignored), plus 20 when they contain the whole query.
C33_WeightCountsDistinctTerms ==
    call.fn = "searchPeople"
    => LET cards == call.args[1]
           keywords == call.args[2]
           terms == Range(splitWhitespace(toLowerCase(keywords)))
       IN \A i \in Extracted(cards) :
             LET text == toLowerCase(cards[i].name \o <<" ">>
                                       \o cards[i].headline)
             IN CardRelevance(cards[i], keywords)
                  = 10 * Cardinality({t \in terms :
                                         t # <<>> /\ includes(text, t)})
                    + (IF includes(text, toLowerCase(keywords))
                       THEN 20 ELSE 0)

\* C34: the sequence of candidates a run holds, with the pages accumulated
\* during the run, contains no locator twice.
C34_NoLocatorTwice ==
    \A sid \in 1..Len(objs) :
        LET profileUrls == objs[sid].profileUrls
        IN \A i, j \in 1..Len(profileUrls) :
              profileUrls[i] = profileUrls[j] => i = j

\* C35: while a run is Running only the session loop drives the shared page:
\* a step that changes the address the page shows while activeSession is
\* running is a step of a session loop (its start included).
C35_OnlyTheLoopDrivesThePage ==
    [][(getSessionStatus_running /\ pageUrl' # pageUrl)
       => \E sid \in 1..Len(loops') :
             sid > Len(loops) \/ LoopStepped(sid)]_vars

\* C36: message generation never throws into the loop: the step in which it
\* returns goes on to the connection request, with a message that is not
\* empty; when the completion failed or gave an empty text, the message is
\* one of the templates, which greet the candidate with the first word of the
\* scraped name.  And a profile row holds a message only when its action
\* includes 'connected'.
Greets(message, name) ==
    LET greeting == <<"Hi ">> \o split(name, " ")[1]
    IN /\ Len(message) > Len(greeting)
       /\ SubSeq(message, 1, Len(greeting)) = greeting
       /\ message[Len(greeting) + 1] \in {"! Your background",
             ", I noticed we might have shared interests.",
             "! Really impressed by your experience"}

C36_FallbackGreetsAndOnlyConnectedKeepMessage ==
    /\ [][\A sid \in 1..Len(loops) :
            (loops[sid].pc = "genmsg" /\ LoopStepped(sid))
            => /\ loops'[sid].pc = "connect"
               /\ loops'[sid].message # <<>>
               /\ (loops'[sid].response.throws
                     \/ loops'[sid].response.content = <<>>)
                  => Greets(loops'[sid].message,
                            ScrapedProfile(loops[sid].linkedin_id).name)]_vars
    /\ [](\A i \in 1..Len(dbProfiles) :
            dbProfiles[i].message_sent # SqlNull
            => dbProfiles[i].action_taken
                  \in {"connected", "connected+followed"})

\* C36 witness: a row records the template sent after the completion failed,
\* and a loop is about to send a template after an empty completion.
C36_FallbackSent ==
    /\ \E i \in 1..Len(dbProfiles) :
          /\ dbProfiles[i].action_taken = "connected"
          /\ dbProfiles[i].message_sent
               = "Hi ann, I noticed we might have shared interests."
    /\ \E sid \in 1..Len(loops) :
          /\ loops[sid].pc = "connect"
          /\ loops[sid].response = NoResponse
          /\ Greets(loops[sid].message, <<"b", "o", "b">>)

\* C37: a loop's exit terminates its own run only: in the step in which the
\* loop started for run sid completes or throws, no row of the sessions table
\* other than row sid is written.
C37_ExitWritesOwnRunOnly ==
    [][\A sid \in 1..Len(loops) :
         (loops[sid].pc # "done" /\ loops'[sid].pc = "done")
         => \A i \in 1..Len(dbSessions) :
               dbSessions'[i] # dbSessions[i] => i = sid]_vars

\* C38: for a candidate that was visited, the identifier scraped from the
\* page is the identifier the candidate's URL gave for the exists() check, and
\* no loop ends on the uniqueness constraint of the profiles table.
C38_ScrapedIdIsCandidateId ==
    /\ \A sid \in 1..Len(loops) :
          loops[sid].pc \in {"score", "genmsg", "connect", "follow"}
          => loops[sid].linkedin_id = ProfileIdOf(loops[sid].profileUrl)
    /\ log # "SQLITE_CONSTRAINT"

\* the profile rows run sid owns
Owned(sid) ==
    Cardinality({i \in 1..Len(dbProfiles) : dbProfiles[i].session_id = sid})

\* C39: in every state connectionsSent and followsSent of a run are at most
\* its profilesViewed, in the run's counters and in its persisted row; between
\* two iterations (the loop is not between a counted visit and its INSERT)
\* the run owns as many profile rows as it has counted visits; and a counter
\* grows by 1 only, in the one step of an iteration that counts it.
C39_CountersBoundedByVisits ==
    /\ [](\A sid \in 1..Len(loops) :
            /\ \A k \in 2..3 :
                  /\ Counters(objs[sid].stats)[k] <= Counters(objs[sid].stats)[1]
                  /\ RowCounters(dbSessions[sid])[k]
                        <= RowCounters(dbSessions[sid])[1]
            /\ loops[sid].pc \in {"search0", "search", "nextpage", "top",
                                  "view", "delay"}
               => Owned(sid) = objs[sid].stats.profilesViewed)
    /\ [][\A sid \in 1..Len(loops) :
            (loops'[sid].pc # "done" \/ activeSession' = sid)
            => \A k \in 1..3 :
                  Counters(objs'[sid].stats)[k] # Counters(objs[sid].stats)[k]
                  => /\ Counters(objs'[sid].stats)[k]
                          = Counters(objs[sid].stats)[k] + 1
                     /\ loops[sid].pc = <<"view", "connect", "follow">>[k]
         ]_vars

\* C39 witness: between two iterations a run has counted two visits, one
\* connection and two follows, and owns two profile rows.
C39_TwoVisitsTwoRows ==
    \E sid \in 1..Len(loops) :
        /\ loops[sid].pc = "delay"
        /\ Counters(objs[sid].stats) = <<2, 1, 2>>
        /\ Owned(sid) = 2

\* the statuses stopSession can be called with
StopStatuses == {"completed", "stopped", "error"}

\* stopSession with no active run changes nothing, and a second call right
\* after a first changes nothing more
StopIdempotent ==
    \A first, second \in StopStatuses :
        /\ activeSession = NULL => stopSession(Cur, first) = Cur
        /\ stopSession(stopSession(Cur, first), second)
              = stopSession(Cur, first)

\* a row of the sessions table that holds a terminal status keeps it, with
\* its end time
TerminalOnce ==
    \A i \in 1..Len(dbSessions) :
        dbSessions[i].status # "running"
        => /\ dbSessions'[i].status = dbSessions[i].status
           /\ dbSessions'[i].ended_at = dbSessions[i].ended_at

\* C40: stopSession is a no-op when no run is active and idempotent; the
\* terminal status of a run is persisted once; and the stop a loop makes on
\* its way out, when its run was stopped before, changes no run record, no
\* counters and no engine state.
C40_StopIdempotentNoOpWhenIdle ==
    /\ []StopIdempotent
    /\ [][/\ TerminalOnce
          /\ \A sid \in 1..Len(loops) :
                (/\ loops[sid].pc # "done" /\ loops'[sid].pc = "done"
                 /\ dbSessions[sid].status # "running")
                => UNCHANGED <<dbSessions, activeSession, ui>>]_vars

====
